---- MODULE Spec2Model ----
(***************************************************************************)
(* Security validation layer of the ArchIntel backend:                     *)
(*   RateLimiter and SessionManager  (services/security_middleware.py)     *)
(*   SecureSubprocess                (services/subprocess_security.py)     *)
(*   URLValidator                    (services/url_validator.py)           *)
(* Time is the integer clock `now`; every time.time() / datetime.utcnow()  *)
(* read inside one call returns the same value.                            *)
(***************************************************************************)
EXTENDS Integers, Sequences, FiniteSets, TLC

\* ------------------------------------------------------------------ bounds
MaxTime == 4
MaxWindow == 2
MaxMaxAttempts == 2
MaxBlock == 2
MaxRecorded == 2
max_sessions_per_user == 2
session_timeout == 1
\* long enough for a session to time out after one refresh
MaxSmTime == session_timeout + 1
\* enough logins of one user to evict a session
MaxCreated == max_sessions_per_user + 1
\* and with another user's session beside them
MaxCapCreated == max_sessions_per_user + 2
RATE_LIMIT_WINDOW == 2
RATE_LIMIT_MAX == 2
MaxOtherArgs == 2
MaxSegments == 3
alert_suppression_window == 2
\* alerts are kept longer than they suppress
AlertRetention == 3
MaxAlerts == 4
\* long enough for a recorded command to leave the window
MaxExTime == RATE_LIMIT_WINDOW

Identifiers == {"ip1"}
Endpoints == {"/auth/me", "/auth/github/login"}
Users == {"u1", "u2"}
\* requests come from IPs x UserAgents; logins all come from one address and
\* one browser (the code only ever compares these values for equality)
IPs == {"10.0.0.1", "10.0.0.2"}
UserAgents == {"firefox", "curl"}
LifecycleUsers == {"u1"}
LoginIPs == {"10.0.0.1"}
LoginUserAgents == {"firefox"}

VARIABLES
  now,            \* wall clock
  window_size,    \* RateLimiter.window_size
  max_attempts,   \* RateLimiter.max_attempts
  block_duration, \* RateLimiter.block_duration
  attempts,       \* RateLimiter.attempts : identifier -> list of timestamps
  blocks,         \* RateLimiter.blocks   : identifier -> blocked-until
  rlCall,         \* the last RateLimiter call and what it returned
  servedBy,       \* history: for each entry of attempts[identifier], the
                  \* endpoint whose handler recorded it
  blockedBy,      \* history: the endpoint whose check set the block of an
                  \* identifier ("" when that check counted foreign attempts)
  blockSetAt,     \* history: when the block of an identifier was last set,
                  \* -1 once an attempt has been recorded after it
  failed          \* history: for each identifier, the times of its
                  \* record_attempt(success=False) calls of the last
                  \* window_size seconds

rlVars == <<window_size, max_attempts, block_duration, attempts, blocks,
            rlCall, servedBy, blockedBy, blockSetAt, failed>>

VARIABLES
  sessions,       \* SessionManager.sessions : session id -> session data
  user_sessions,  \* SessionManager.user_sessions : user id -> set of session ids
  nextSid,        \* the next fresh session id (_generate_session_id never repeats)
  smCall,         \* the last SessionManager call: operation, arguments,
                  \* what it returned and the session events it logged
  retired         \* history: session ids that were invalidated

smVars == <<sessions, user_sessions, nextSid, smCall, retired>>

VARIABLES
  command_history, \* SecureSubprocess.command_history : list of timestamps
  request,         \* the command a caller has handed to execute(), if any
  exCall           \* the last execute() call: its arguments, what the caller
                   \* got, whether validate_command returned and whether
                   \* subprocess.run was called

exVars == <<command_history, request, exCall>>

VARIABLES
  fs_links,        \* the symbolic links of the filesystem: place -> target
  pvRequest,       \* the base and relative path a caller passes to validate_path
  pvCall           \* the last validate_path call: the Path returned or the
                   \* PathTraversalError raised

pvVars == <<fs_links, pvRequest, pvCall>>

VARIABLES
  urlRequest,      \* the URL a caller holds, and whether it is the result of
                   \* an earlier sanitize_repository_url call
  urlCall          \* the last URL call: validate_url or
                   \* sanitize_repository_url, what it returned or raised

urlVars == <<urlRequest, urlCall>>

VARIABLES
  alerts,            \* SecurityMonitor.alerts : list of SecurityAlert
  alert_suppression, \* SecurityMonitor.alert_suppression : key -> suppressed-until
  amCall,            \* the last SecurityMonitor call and what it did
  emittedAt          \* history: when the last alert of an (alert type,
                     \* address) pair was appended, -1 if none was

amVars == <<alerts, alert_suppression, amCall, emittedAt>>

VARIABLES
  os_environ,      \* the environment of the server process: name -> value
  envRequest,      \* the env argument a caller passes to execute (None or a dict)
  envCall          \* the last _sanitize_environment call and the safe_env it returned

envVars == <<os_environ, envRequest, envCall>>

VARIABLES
  cloneCall        \* the last run of a handler that clones a repository: the
                   \* URL it was given, whether the URL passed validation and
                   \* whether a git clone process was spawned

cloneVars == <<cloneCall>>

VARIABLES
  passed,          \* history: the times at which validate_command returned
                   \* without raising, oldest first
  limited_at,      \* history: the time of the latest "Rate limit exceeded",
                   \* -1 before the first
  vcCall           \* the last direct validate_command call: the command and
                   \* the error it raised ("ok" for none)

rwVars == <<passed, limited_at, vcCall>>

VARIABLES
  ticks,           \* time.time() as the middleware's limiter reads it, in
                   \* units of 1/Resolution second
  requests,        \* middleware RateLimiter.requests : key -> list of times
  key_blocks,      \* middleware RateLimiter.blocks : key -> blocked-until
  mwCall,          \* the last call of the middleware or of its limiter
  admitted         \* history: for each key, the times of the requests the
                   \* middleware let through, those of the last window only

mwVars == <<ticks, requests, key_blocks, mwCall, admitted>>

VARIABLES
  handlers         \* the runs of get_current_user_secure: for each request,
                   \* where its coroutine stands, when it reached the
                   \* credential check (-1: not reached) and the status it
                   \* answered (0: none yet)

authVars == <<handlers>>

VARIABLES
  allowed_paths,   \* PathValidator.allowed_paths of the validator handed to
                   \* resolve_repo_path_safe
  rpCall           \* the last resolve_repo_path_safe or add_allowed_path call

rpVars == <<allowed_paths, rpCall>>

vars == <<now, rlVars, smVars, exVars, pvVars, urlVars, amVars, envVars, cloneVars, rwVars, mwVars, authVars, rpVars>>

\* ------------------------------------------------------- dictionaries
EmptyDict == [k \in {} |-> 0]

\* d[k] of a defaultdict(list) read without inserting
Get(d, k) == IF k \in DOMAIN d THEN d[k] ELSE <<>>

\* d[k] = v
Put(d, k, v) == [x \in (DOMAIN d) \cup {k} |-> IF x = k THEN v ELSE d[x]]

\* del d[k]
Del(d, k) == [x \in (DOMAIN d) \ {k} |-> d[x]]

\* ------------------------------------------------------- RateLimiter
\* [t for t in xs if t > cutoff_time]
PruneOld(xs, cutoff_time) == SelectSeq(xs, LAMBDA t : t > cutoff_time)

\* is_rate_limited with the block test off by one: a block still holds at
\* the instant blocked-until is reached
is_rate_limited_late(att, blk, identifier, current_time, W, N, B) ==
  LET blocked == identifier \in DOMAIN blk /\ current_time <= blk[identifier]
      blk1 == IF identifier \in DOMAIN blk /\ ~blocked THEN Del(blk, identifier) ELSE blk
      pruned == PruneOld(Get(att, identifier), current_time - W)
      att1 == Put(att, identifier, pruned)
  IN  IF blocked
        THEN [limited |-> TRUE, retry_after |-> (blk[identifier] - current_time) + 1,
              attempts |-> att, blocks |-> blk, violation |-> FALSE]
      ELSE IF Len(pruned) >= N
        THEN [limited |-> TRUE, retry_after |-> B,
              attempts |-> att1, blocks |-> Put(blk1, identifier, current_time + B),
              violation |-> TRUE]
      ELSE [limited |-> FALSE, retry_after |-> -1,
            attempts |-> att1, blocks |-> blk1, violation |-> FALSE]

\* RateLimiter.is_rate_limited: the returned pair, the dictionaries after
\* the call, and whether a rate-limit violation was logged.
\* retry_after = -1 stands for None.
is_rate_limited(att, blk, identifier, current_time, W, N, B) ==
  LET blocked == identifier \in DOMAIN blk /\ current_time < blk[identifier]
      blk1 == IF identifier \in DOMAIN blk /\ ~blocked THEN Del(blk, identifier) ELSE blk
      pruned == PruneOld(Get(att, identifier), current_time - W)
      att1 == Put(att, identifier, pruned)
  IN  IF blocked
        THEN [limited |-> TRUE, retry_after |-> (blk[identifier] - current_time) + 1,
              attempts |-> att, blocks |-> blk, violation |-> FALSE]
      ELSE IF Len(pruned) >= N
        THEN [limited |-> TRUE, retry_after |-> B,
              attempts |-> att1, blocks |-> Put(blk1, identifier, current_time + B),
              violation |-> TRUE]
      ELSE [limited |-> FALSE, retry_after |-> -1,
            attempts |-> att1, blocks |-> blk1, violation |-> FALSE]

\* record_attempt that records successful attempts too
record_attempt_always(att, identifier, success, current_time) ==
  Put(att, identifier, Append(Get(att, identifier), current_time))

\* RateLimiter.record_attempt: the attempts dictionary after the call
record_attempt(att, identifier, success, current_time) ==
  IF ~success THEN Put(att, identifier, Append(Get(att, identifier), current_time))
  ELSE att

\* RateLimiter.progressive_delays
progressive_delays == <<0, 1, 2, 4, 8, 16>>

\* RateLimiter.get_progressive_delay: the delay it returns and the attempts
\* dictionary after the call
get_progressive_delay(att, identifier, current_time, W) ==
  LET pruned == PruneOld(Get(att, identifier), current_time - W)
      attempt_count == Len(pruned)
  IN  [delay |-> IF attempt_count >= Len(progressive_delays)
                   THEN progressive_delays[Len(progressive_delays)]
                 ELSE progressive_delays[attempt_count + 1],
       attempts |-> Put(att, identifier, pruned)]

\* number of timestamps of xs in the trailing window (current_time - W, current_time]
WindowCount(xs, current_time, W) ==
  Cardinality({i \in 1..Len(xs) : xs[i] > current_time - W})

\* of those, the ones recorded by the handler of `endpoint`
OwnWindowCount(xs, eps, endpoint, current_time, W) ==
  Cardinality({i \in 1..Len(xs) : xs[i] > current_time - W /\ eps[i] = endpoint})

\* the positions of xs that PruneOld keeps, applied to a parallel list
PruneLike(ys, xs, cutoff_time) ==
  LET keep == {i \in 1..Len(xs) : xs[i] > cutoff_time}
      Nth[n \in 0..Len(xs)] ==
        IF n = 0 THEN <<>>
        ELSE IF n \in keep THEN Append(Nth[n - 1], ys[n]) ELSE Nth[n - 1]
  IN  Nth[Len(xs)]

\* the times of a history that lie in the window reaching back from now
Recent(xs) == SelectSeq(xs, LAMBDA t : t > now - window_size)

NoCall == [op |-> "none", identifier |-> "", endpoint |-> "",
           limited |-> FALSE, retry_after |-> -1,
           preCount |-> 0, ownCount |-> 0, ownBlock |-> FALSE,
           blockElapsed |-> FALSE, remaining |-> 0, delay |-> 0, stored |-> 0]

RLInit ==
  /\ window_size \in 1..MaxWindow
  /\ max_attempts \in 1..MaxMaxAttempts
  /\ block_duration \in 1..MaxBlock
  /\ attempts = EmptyDict
  /\ blocks = EmptyDict
  /\ rlCall = NoCall
  /\ servedBy = [i \in Identifiers |-> <<>>]
  /\ blockedBy = [i \in Identifiers |-> ""]
  /\ blockSetAt = [i \in Identifiers |-> -1]
  /\ failed = [i \in Identifiers |-> <<>>]

\* a caller serving `endpoint` asks is_rate_limited(identifier, endpoint)
IsRateLimited(identifier, endpoint) ==
  LET r == is_rate_limited(attempts, blocks, identifier, now,
                           window_size, max_attempts, block_duration)
      xs == Get(attempts, identifier)
      own == OwnWindowCount(xs, servedBy[identifier], endpoint, now, window_size)
      inBlock == identifier \in DOMAIN blocks /\ now < blocks[identifier]
  IN  /\ attempts' = r.attempts
      /\ blocks' = r.blocks
      /\ servedBy' = IF r.attempts = attempts THEN servedBy
                     ELSE [servedBy EXCEPT ![identifier] = PruneLike(@, xs, now - window_size)]
      /\ blockedBy' = IF r.violation
                        THEN [blockedBy EXCEPT ![identifier] =
                                IF own >= max_attempts THEN endpoint ELSE ""]
                      ELSE blockedBy
      /\ blockSetAt' = IF r.violation THEN [blockSetAt EXCEPT ![identifier] = now]
                       ELSE blockSetAt
      /\ rlCall' = [op |-> "is_rate_limited", identifier |-> identifier,
                    endpoint |-> endpoint,
                    limited |-> r.limited, retry_after |-> r.retry_after,
                    preCount |-> WindowCount(xs, now, window_size),
                    ownCount |-> own,
                    ownBlock |-> (inBlock /\ blockedBy[identifier] = endpoint),
                    blockElapsed |-> (blockSetAt[identifier] # -1
                                      /\ now - blockSetAt[identifier] >= block_duration),
                    remaining |-> IF inBlock THEN blocks[identifier] - now ELSE 0,
                    delay |-> 0, stored |-> Len(xs)]
      /\ failed' = [failed EXCEPT ![identifier] = Recent(@)]
      /\ UNCHANGED <<now, window_size, max_attempts, block_duration, smVars, exVars, pvVars, urlVars, amVars, envVars, cloneVars, rwVars, mwVars, authVars, rpVars>>

\* a caller serving `endpoint` reports the outcome of an attempt
RecordAttempt(identifier, endpoint, success) ==
  /\ Len(Get(attempts, identifier)) < MaxRecorded
  /\ attempts' = record_attempt(attempts, identifier, success, now)
  /\ servedBy' = IF attempts' = attempts THEN servedBy
                 ELSE [servedBy EXCEPT ![identifier] = Append(@, endpoint)]
  /\ blockSetAt' = IF attempts' = attempts THEN blockSetAt
                   ELSE [blockSetAt EXCEPT ![identifier] = -1]
  /\ failed' = [failed EXCEPT ![identifier] =
                  IF success THEN Recent(@) ELSE Append(Recent(@), now)]
  /\ rlCall' = [NoCall EXCEPT !.op = "record_attempt", !.identifier = identifier,
                              !.endpoint = endpoint]
  /\ UNCHANGED <<now, window_size, max_attempts, block_duration, blocks, blockedBy, smVars, exVars, pvVars, urlVars, amVars, envVars, cloneVars, rwVars, mwVars, authVars, rpVars>>

\* a caller asks get_progressive_delay(identifier)
GetProgressiveDelay(identifier) ==
  LET r == get_progressive_delay(attempts, identifier, now, window_size)
      xs == Get(attempts, identifier)
  IN  /\ attempts' = r.attempts
      /\ servedBy' = [servedBy EXCEPT ![identifier] = PruneLike(@, xs, now - window_size)]
      /\ rlCall' = [NoCall EXCEPT !.op = "get_progressive_delay",
                                  !.identifier = identifier, !.delay = r.delay]
      /\ failed' = [failed EXCEPT ![identifier] = Recent(@)]
      /\ UNCHANGED <<now, window_size, max_attempts, block_duration, blocks, blockedBy, blockSetAt, smVars, exVars, pvVars, urlVars, amVars, envVars, cloneVars, rwVars, mwVars, authVars, rpVars>>

\* ------------------------------------------------------- SessionManager
NoSession == [user_id |-> "", created_at |-> -1, last_activity |-> -1,
              ip |-> "", user_agent |-> "", active |-> FALSE]

\* now - last_activity > timedelta(seconds=session_timeout)
TimedOut(session_data, utcnow) == utcnow - session_data.last_activity > session_timeout

\* invalidate_session that forgets to drop the session data
invalidate_session_keep(S, session_id) ==
  IF session_id \in DOMAIN S.sessions
    THEN LET user_id == S.sessions[session_id].user_id
         IN  [sessions |-> S.sessions,
              user_sessions |-> [S.user_sessions EXCEPT ![user_id] = @ \ {session_id}],
              events |-> Append(S.events, <<"INVALIDATED", session_id>>)]
  ELSE S

\* SessionManager.invalidate_session on S = [sessions, user_sessions, events]
invalidate_session(S, session_id) ==
  IF session_id \in DOMAIN S.sessions
    THEN LET user_id == S.sessions[session_id].user_id
         IN  [sessions |-> Del(S.sessions, session_id),
              user_sessions |-> [S.user_sessions EXCEPT ![user_id] = @ \ {session_id}],
              events |-> Append(S.events, <<"INVALIDATED", session_id>>)]
  ELSE S

\* the lists sorted(ids, key=created_at) can return: ties keep the set's
\* iteration order, which is arbitrary
SortedByCreatedAt(S, ids) ==
  {order \in [1..Cardinality(ids) -> ids] :
     /\ \A i, j \in DOMAIN order : i # j => order[i] # order[j]
     /\ \A i, j \in DOMAIN order :
          i < j => S.sessions[order[i]].created_at <= S.sessions[order[j]].created_at}

\* the while loop of _cleanup_old_sessions over the sorted list `order`;
\* popping from an exhausted list raises IndexError, left as no change
RECURSIVE cleanup_loop(_, _, _)
cleanup_loop(S, user_id, order) ==
  IF Cardinality(S.user_sessions[user_id]) >= max_sessions_per_user /\ Len(order) > 0
    THEN cleanup_loop(invalidate_session(S, Head(order)), user_id, Tail(order))
  ELSE S

\* _cleanup_old_sessions that pops from the wrong end of the sorted list
_cleanup_newest_sessions(S, user_id, order) ==
  cleanup_loop(S, user_id, [i \in 1..Len(order) |-> order[Len(order) + 1 - i]])

\* SessionManager._cleanup_old_sessions
_cleanup_old_sessions(S, user_id, order) == cleanup_loop(S, user_id, order)

\* create_session that never evicts
create_session_uncapped(S, session_id, user_id, ip, user_agent, order, utcnow) ==
  [sessions |-> Put(S.sessions, session_id,
                    [user_id |-> user_id, created_at |-> utcnow,
                     last_activity |-> utcnow, ip |-> ip,
                     user_agent |-> user_agent, active |-> TRUE]),
   user_sessions |-> [S.user_sessions EXCEPT ![user_id] = @ \cup {session_id}],
   events |-> Append(S.events, <<"CREATED", session_id>>)]

\* SessionManager.create_session
create_session(S, session_id, user_id, ip, user_agent, order, utcnow) ==
  LET S1 == IF Cardinality(S.user_sessions[user_id]) >= max_sessions_per_user
              THEN _cleanup_old_sessions(S, user_id, order)
            ELSE S
  IN  [sessions |-> Put(S1.sessions, session_id,
                        [user_id |-> user_id, created_at |-> utcnow,
                         last_activity |-> utcnow, ip |-> ip,
                         user_agent |-> user_agent, active |-> TRUE]),
       user_sessions |-> [S1.user_sessions EXCEPT ![user_id] = @ \cup {session_id}],
       events |-> Append(S1.events, <<"CREATED", session_id>>)]

\* validate_session that refreshes last_activity before the IP check
validate_session_refresh(S, session_id, ip, user_agent, utcnow) ==
  IF session_id \notin DOMAIN S.sessions
    THEN [result |-> "null", S |-> S]
  ELSE LET session_data == S.sessions[session_id] IN
    IF ~session_data.active
      THEN [result |-> "null", S |-> S]
    ELSE IF TimedOut(session_data, utcnow)
      THEN [result |-> "null", S |-> invalidate_session(S, session_id)]
    ELSE LET T == [S EXCEPT !.sessions[session_id].last_activity = utcnow] IN
      IF session_data.ip # ip
        THEN [result |-> "null",
              S |-> [T EXCEPT !.events = Append(@, <<"HIJACK_ATTEMPT", session_id>>)]]
      ELSE [result |-> "session", S |-> T]

\* SessionManager.validate_session: "null" for None, "session" for the data
validate_session(S, session_id, ip, user_agent, utcnow) ==
  IF session_id \notin DOMAIN S.sessions
    THEN [result |-> "null", S |-> S]
  ELSE LET session_data == S.sessions[session_id] IN
    IF ~session_data.active
      THEN [result |-> "null", S |-> S]
    ELSE IF TimedOut(session_data, utcnow)
      THEN [result |-> "null", S |-> invalidate_session(S, session_id)]
    ELSE IF session_data.ip # ip
      THEN [result |-> "null",
            S |-> [S EXCEPT !.events = Append(@, <<"HIJACK_ATTEMPT", session_id>>)]]
    ELSE [result |-> "session",
          S |-> [S EXCEPT !.sessions[session_id].last_activity = utcnow]]

\* invalidate_session for each id of `ids`, in the order CHOOSE picks them
\* (the calls commute: each removes its own id)
RECURSIVE invalidate_each(_, _)
invalidate_each(S, ids) ==
  IF ids = {} THEN S
  ELSE LET sid == CHOOSE x \in ids : TRUE
       IN  invalidate_each(invalidate_session(S, sid), ids \ {sid})

\* SessionManager.invalidate_all_user_sessions
invalidate_all_user_sessions(S, user_id) ==
  LET S1 == invalidate_each(S, S.user_sessions[user_id])
  IN  [S1 EXCEPT !.events = Append(@, <<"INVALIDATED_ALL", 0>>)]

\* SessionManager.cleanup_expired_sessions
cleanup_expired_sessions(S, utcnow) ==
  invalidate_each(S, {sid \in DOMAIN S.sessions : TimedOut(S.sessions[sid], utcnow)})

SMState == [sessions |-> sessions, user_sessions |-> user_sessions, events |-> <<>>]

\* session ids named in the events of the given type
Logged(events, type) == {events[i][2] : i \in {j \in 1..Len(events) : events[j][1] = type}}

NoSmCall == [op |-> "none", sid |-> 0, ip |-> "", user_agent |-> "",
             result |-> "none", events |-> <<>>]

SessionIds == 1..MaxCapCreated

SMInit ==
  /\ sessions = EmptyDict
  /\ user_sessions = [u \in Users |-> {}]
  /\ nextSid = 1
  /\ smCall = NoSmCall
  /\ retired = {}

\* the state and histories after an operation that left S1
SMCommit(S1) ==
  /\ sessions' = S1.sessions
  /\ user_sessions' = S1.user_sessions
  /\ retired' = retired \cup Logged(S1.events, "INVALIDATED")

CreateSession(user_id, ip, user_agent) ==
  /\ \E order \in SortedByCreatedAt(SMState, user_sessions[user_id]) :
       LET S1 == create_session(SMState, nextSid, user_id, ip, user_agent, order, now)
       IN  /\ SMCommit(S1)
           /\ smCall' = [NoSmCall EXCEPT !.op = "create_session", !.sid = nextSid,
                                         !.result = "created", !.events = S1.events]
  /\ nextSid' = nextSid + 1
  /\ UNCHANGED <<now, rlVars, exVars, pvVars, urlVars, amVars, envVars, cloneVars, rwVars, mwVars, authVars, rpVars>>

ValidateSession(session_id, ip, user_agent) ==
  LET r == validate_session(SMState, session_id, ip, user_agent, now)
  IN  /\ SMCommit(r.S)
      /\ smCall' = [NoSmCall EXCEPT !.op = "validate_session", !.sid = session_id,
                                    !.ip = ip, !.user_agent = user_agent,
                                    !.result = r.result, !.events = r.S.events]
      /\ UNCHANGED <<now, rlVars, exVars, pvVars, nextSid, urlVars, amVars, envVars, cloneVars, rwVars, mwVars, authVars, rpVars>>

InvalidateSession(session_id) ==
  LET S1 == invalidate_session(SMState, session_id)
  IN  /\ SMCommit(S1)
      /\ smCall' = [NoSmCall EXCEPT !.op = "invalidate_session", !.sid = session_id,
                                    !.events = S1.events]
      /\ UNCHANGED <<now, rlVars, exVars, pvVars, nextSid, urlVars, amVars, envVars, cloneVars, rwVars, mwVars, authVars, rpVars>>

InvalidateAllUserSessions(user_id) ==
  LET S1 == invalidate_all_user_sessions(SMState, user_id)
  IN  /\ SMCommit(S1)
      /\ smCall' = [NoSmCall EXCEPT !.op = "invalidate_all_user_sessions",
                                    !.events = S1.events]
      /\ UNCHANGED <<now, rlVars, exVars, pvVars, nextSid, urlVars, amVars, envVars, cloneVars, rwVars, mwVars, authVars, rpVars>>

CleanupExpiredSessions ==
  LET S1 == cleanup_expired_sessions(SMState, now)
  IN  /\ SMCommit(S1)
      /\ smCall' = [NoSmCall EXCEPT !.op = "cleanup_expired_sessions",
                                    !.events = S1.events]
      /\ UNCHANGED <<now, rlVars, exVars, pvVars, nextSid, urlVars, amVars, envVars, cloneVars, rwVars, mwVars, authVars, rpVars>>

\* ------------------------------------------------------- strings
\* A Python str is the sequence of its characters.
LowerLetters == {"a", "b", "c", "d", "e", "f", "g", "h", "i", "j", "k", "l", "m", "n", "o", "p", "q", "r", "s", "t", "u", "v", "w", "x", "y", "z"}
UpperLetters == {"A", "B", "C", "D", "E", "F", "G", "H", "I", "J", "K", "L", "M", "N", "O", "P", "Q", "R", "S", "T", "U", "V", "W", "X", "Y", "Z"}
Digits == {"0", "1", "2", "3", "4", "5", "6", "7", "8", "9"}
\* [a-zA-Z0-9]
AlphaNum == LowerLetters \cup UpperLetters \cup Digits

\* the character U+0060, which a TLA+ string cannot hold
Backquote == "backquote"

\* s.startswith(p)
StartsWith(s, p) == Len(s) >= Len(p) /\ SubSeq(s, 1, Len(p)) = p

\* s.endswith(p)
EndsWith(s, p) == Len(s) >= Len(p) /\ SubSeq(s, Len(s) - Len(p) + 1, Len(s)) = p

\* s[i - 1:].startswith(p)
MatchAt(s, p, i) == \A j \in 1..Len(p) : s[i + j - 1] = p[j]

\* s.find(p) + 1: the first position where p occurs in s, 0 when it does not
Find(s, p) ==
  LET hits == {i \in 1..(Len(s) - Len(p) + 1) : MatchAt(s, p, i)}
  IN  IF hits = {} THEN 0 ELSE CHOOSE i \in hits : \A j \in hits : i <= j

\* s.rfind(p) + 1
RFind(s, p) ==
  LET hits == {i \in 1..(Len(s) - Len(p) + 1) : MatchAt(s, p, i)}
  IN  IF hits = {} THEN 0 ELSE CHOOSE i \in hits : \A j \in hits : i >= j

\* p in s
Contains(s, p) == \E i \in 1..(Len(s) - Len(p) + 1) : MatchAt(s, p, i)

\* s.partition(p)[0] and s.partition(p)[2]
Before(s, p) == LET at == Find(s, p) IN IF at = 0 THEN s ELSE SubSeq(s, 1, at - 1)
After(s, p) == LET at == Find(s, p) IN IF at = 0 THEN <<>> ELSE SubSeq(s, at + Len(p), Len(s))

\* s.rpartition(p)[0] and s.rpartition(p)[2]
RBefore(s, p) == LET at == RFind(s, p) IN IF at = 0 THEN <<>> ELSE SubSeq(s, 1, at - 1)
RAfter(s, p) == LET at == RFind(s, p) IN IF at = 0 THEN s ELSE SubSeq(s, at + Len(p), Len(s))

\* re.match(r'^[...]+$', s) for a character class
MatchesClass(s, class) == Len(s) >= 1 /\ \A i \in 1..Len(s) : s[i] \in class

\* s.lower()
LowerChar(c) ==
  IF c \in UpperLetters
    THEN LET up == <<"A", "B", "C", "D", "E", "F", "G", "H", "I", "J", "K", "L", "M", "N", "O", "P", "Q", "R", "S", "T", "U", "V", "W", "X", "Y", "Z">>
             lo == <<"a", "b", "c", "d", "e", "f", "g", "h", "i", "j", "k", "l", "m", "n", "o", "p", "q", "r", "s", "t", "u", "v", "w", "x", "y", "z">>
         IN  lo[CHOOSE i \in 1..26 : up[i] = c]
  ELSE c
Lower(s) == [i \in 1..Len(s) |-> LowerChar(s[i])]

\* s.rstrip('.')
RECURSIVE RStripDot(_)
RStripDot(s) == IF Len(s) > 0 /\ s[Len(s)] = "." THEN RStripDot(SubSeq(s, 1, Len(s) - 1)) ELSE s

\* [seg for seg in s.split('/') if seg]: the number of non-empty segments
SegmentCount(s) ==
  Cardinality({i \in 1..Len(s) : s[i] # "/" /\ (i = 1 \/ s[i - 1] = "/")})

\* s.split('/')
RECURSIVE SplitSlash(_)
SplitSlash(s) ==
  IF Find(s, <<"/">>) = 0 THEN <<s>>
  ELSE <<Before(s, <<"/">>)>> \o SplitSlash(After(s, <<"/">>))

\* ------------------------------------------------------- URLValidator
ALLOWED_SCHEMES == {<<"h", "t", "t", "p", "s">>,
                    <<"s", "s", "h">>,
                    <<"g", "i", "t">>}

ALLOWED_DOMAINS ==
  {<<"g", "i", "t", "h", "u", "b", ".", "c", "o", "m">>,
   <<"g", "i", "t", "l", "a", "b", ".", "c", "o", "m">>,
   <<"b", "i", "t", "b", "u", "c", "k", "e", "t", ".", "o", "r", "g">>,
   <<"g", "i", "t", "l", "a", "b", ".", "i", "n", "t", "e", "r", "n", "a", "l", ".", "c", "o", "m", "p", "a", "n", "y", ".", "c", "o", "m">>,
   <<"g", "i", "t", "h", "u", "b", ".", "c", "o", "m", "p", "a", "n", "y", ".", "c", "o", "m">>}

MAX_URL_LENGTH == 2000
MAX_PATH_DEPTH == 10

\* [a-zA-Z0-9._/-] and [a-zA-Z0-9._-]
PathChars == AlphaNum \cup {".", "_", "/", "-"}
UserinfoChars == AlphaNum \cup {".", "_", "-"}

\* FORBIDDEN_PATTERNS that are plain substrings; the two remaining patterns,
\* @.*@ and #.*#, ask for the character twice with no line feed in between
ForbiddenSubstrings ==
  {<<"&">>,
   <<"|">>,
   <<";">>,
   <<"$", "(">>,
   <<Backquote>>,
   <<">">>,
   <<"<">>,
   <<"&", "&">>,
   <<"|", "|">>,
   <<".", ".", "/">>,
   <<"%", "2", "e", "%", "2", "e", "%", "2", "f">>,
   <<"%", "2", "e", "%", "2", "e", "/">>,
   <<".", ".", "\\">>,
   <<"%", "2", "e", "%", "2", "e", "%", "5", "c">>,
   <<"%", "2", "e", "%", "2", "e", "\\">>,
   <<"j", "a", "v", "a", "s", "c", "r", "i", "p", "t", ":">>,
   <<"d", "a", "t", "a", ":">>,
   <<"f", "i", "l", "e", ":">>,
   <<"f", "t", "p", ":">>}

\* URLValidator._contains_forbidden_patterns
_contains_forbidden_patterns(url) ==
  LET url_lower == Lower(url)
      Twice(c) == \E i \in 1..Len(url_lower) :
                    /\ url_lower[i] = c
                    /\ \E j \in (i + 1)..Len(url_lower) :
                         /\ url_lower[j] = c
                         /\ \A k \in (i + 1)..(j - 1) : url_lower[k] # "\n"
  IN  \/ \E p \in ForbiddenSubstrings : Contains(url_lower, p)
      \/ Twice("@")
      \/ Twice("#")

\* urlsplit first strips leading spaces and removes every tab, line feed
\* and carriage return from the URL
UnsafeUrlChars == {"\t", "\n", "\r"}
RECURSIVE LStripSpace(_)
LStripSpace(s) == IF Len(s) > 0 /\ s[1] = " " THEN LStripSpace(Tail(s)) ELSE s
RemoveUnsafe(s) == SelectSeq(LStripSpace(s), LAMBDA c : c \notin UnsafeUrlChars)

\* urllib.parse.urlparse, for URLs without brackets and parameters: scheme,
\* netloc, path, query, fragment and the derived username, password and
\* hostname (<<>> stands for None and for "")
SchemeChars == AlphaNum \cup {"+", "-", "."}
urlparse(url) ==
  LET cleaned == RemoveUnsafe(url)
      colon == Find(cleaned, <<":">>)
      hasScheme == /\ colon > 1
                   /\ cleaned[1] \in LowerLetters \cup UpperLetters
                   /\ \A i \in 1..(colon - 1) : cleaned[i] \in SchemeChars
      scheme == IF hasScheme THEN Lower(SubSeq(cleaned, 1, colon - 1)) ELSE <<>>
      rest == IF hasScheme THEN SubSeq(cleaned, colon + 1, Len(cleaned)) ELSE cleaned
      hasNetloc == StartsWith(rest, <<"/", "/">>)
      afterSlashes == SubSeq(rest, 3, Len(rest))
      stops == {i \in 1..Len(afterSlashes) : afterSlashes[i] \in {"/", "?", "#"}}
      netlocEnd == IF stops = {} THEN Len(afterSlashes) + 1
                   ELSE CHOOSE i \in stops : \A j \in stops : i <= j
      netloc == IF hasNetloc THEN SubSeq(afterSlashes, 1, netlocEnd - 1) ELSE <<>>
      tail == IF hasNetloc THEN SubSeq(afterSlashes, netlocEnd, Len(afterSlashes)) ELSE rest
      fragment == After(tail, <<"#">>)
      noFragment == Before(tail, <<"#">>)
      query == After(noFragment, <<"?">>)
      path == Before(noFragment, <<"?">>)
      hasUserinfo == Contains(netloc, <<"@">>)
      userinfo == RBefore(netloc, <<"@">>)
      hostinfo == RAfter(netloc, <<"@">>)
  IN  [scheme |-> scheme, netloc |-> netloc, path |-> path,
       query |-> query, fragment |-> fragment,
       username |-> IF hasUserinfo THEN Before(userinfo, <<":">>) ELSE <<>>,
       password |-> IF hasUserinfo THEN After(userinfo, <<":">>) ELSE <<>>,
       hostname |-> Lower(Before(hostinfo, <<":">>))]

\* URLValidator._validate_domain
_validate_domain(hostname) ==
  IF hostname = <<>> THEN FALSE
  ELSE LET h == RStripDot(Lower(hostname))
       IN  \/ h \in ALLOWED_DOMAINS
           \/ \E allowed_domain \in ALLOWED_DOMAINS :
                EndsWith(h, <<".">> \o allowed_domain) \/ h = allowed_domain

\* URLValidator._validate_path
_validate_path(path) ==
  IF path = <<>> THEN TRUE
  ELSE IF ~MatchesClass(path, PathChars) THEN FALSE
  ELSE LET path_segments == SplitSlash(path)
       IN  \A i \in 1..Len(path_segments) :
             ~(\/ path_segments[i] = <<".", ".">>
               \/ (StartsWith(path_segments[i], <<"%", "2", "e", "%", "2", "e">>)
                   /\ Len(path_segments[i]) >= 6))

\* URLValidator._validate_userinfo
_validate_userinfo(userinfo) ==
  IF userinfo = <<>> THEN TRUE ELSE MatchesClass(userinfo, UserinfoChars)

\* URLValidator.validate_url: "ok" when it returns True, otherwise the
\* check that raised URLValidationError
validate_url(url) ==
  IF url = <<>> THEN "empty"
  ELSE IF Len(url) > MAX_URL_LENGTH THEN "too_long"
  ELSE IF _contains_forbidden_patterns(url) THEN "forbidden_pattern"
  ELSE LET parsed == urlparse(url) IN
    IF parsed.scheme \notin ALLOWED_SCHEMES THEN "scheme"
    ELSE IF ~_validate_domain(parsed.hostname) THEN "domain"
    ELSE IF ~_validate_path(parsed.path) THEN "path"
    ELSE IF parsed.username # <<>> /\ ~_validate_userinfo(parsed.username) THEN "username"
    ELSE IF parsed.password # <<>> THEN "password"
    ELSE IF SegmentCount(parsed.path) > MAX_PATH_DEPTH THEN "path_depth"
    ELSE "ok"

\* int(s) and str(n) for strings of ASCII digits
DigitSeq == <<"0", "1", "2", "3", "4", "5", "6", "7", "8", "9">>
RECURSIVE ToInt(_)
ToInt(s) ==
  IF s = <<>> THEN 0
  ELSE 10 * ToInt(SubSeq(s, 1, Len(s) - 1))
       + (CHOOSE d \in 0..9 : DigitSeq[d + 1] = s[Len(s)])
RECURSIVE ToStr(_)
ToStr(n) == IF n < 10 THEN <<DigitSeq[n + 1]>> ELSE ToStr(n \div 10) \o <<DigitSeq[(n % 10) + 1]>>

\* SplitResult.port: the text after the host's colon as a number; value -1
\* stands for None, raised for the ValueError of a port that is no number
\* or is out of range
port(parsed) ==
  LET hostinfo == RAfter(parsed.netloc, <<"@">>)
      text == After(hostinfo, <<":">>)
  IN  IF text = <<>> THEN [raised |-> FALSE, value |-> -1]
      ELSE IF ~MatchesClass(text, Digits) THEN [raised |-> TRUE, value |-> -1]
      ELSE IF ToInt(text) > 65535 THEN [raised |-> TRUE, value |-> -1]
      ELSE [raised |-> FALSE, value |-> ToInt(text)]

\* urllib.parse.urlunparse
urlunparse(scheme, netloc, path, params, query, fragment) ==
  LET withParams == IF params # <<>> THEN path \o <<";">> \o params ELSE path
      withNetloc ==
        IF netloc # <<>>
        THEN <<"/", "/">> \o netloc
             \o (IF withParams # <<>> /\ withParams[1] # "/" THEN <<"/">> ELSE <<>>)
             \o withParams
        ELSE withParams
      withScheme == IF scheme # <<>> THEN scheme \o <<":">> \o withNetloc ELSE withNetloc
      withQuery == IF query # <<>> THEN withScheme \o <<"?">> \o query ELSE withScheme
  IN  IF fragment # <<>> THEN withQuery \o <<"#">> \o fragment ELSE withQuery

\* the netloc sanitize_url builds: the username, ":***" in place of a
\* password, "@" and the hostname, ":" and the port
masked_userinfo(username, password) ==
  IF password # <<>> THEN username \o <<":", "*", "*", "*">> ELSE username
netloc_with_host(userinfo, hostname) ==
  IF hostname = <<>> THEN userinfo
  ELSE IF userinfo # <<>> THEN userinfo \o <<"@">> \o hostname
  ELSE hostname
netloc_with_port(netloc, parsed_port) ==
  IF parsed_port > 0 THEN netloc \o <<":">> \o ToStr(parsed_port) ELSE netloc

\* the body of sanitize_url once validate_url has run and the URL is parsed
sanitized(validated, parsed, parsed_port) ==
  IF validated # "ok" THEN [raised |-> TRUE, error |-> validated, result |-> <<>>]
  ELSE IF parsed_port.raised THEN [raised |-> TRUE, error |-> "port", result |-> <<>>]
  ELSE [raised |-> FALSE, error |-> "",
        result |-> urlunparse(parsed.scheme,
                              netloc_with_port(
                                netloc_with_host(
                                  masked_userinfo(parsed.username, parsed.password),
                                  parsed.hostname),
                                parsed_port.value),
                              parsed.path, <<>>, parsed.query, parsed.fragment)]

\* URLValidator.sanitize_url: the URL it returns, or raised with the reason
\* of the URLSanitizationError every exception is turned into
sanitize_url(url) == sanitized(validate_url(url), urlparse(url), port(urlparse(url)))

\* sanitize_repository_url
sanitize_repository_url(url) == sanitize_url(url)

\* ------------------------------------------------------- SecureSubprocess
\* The words commands are made of. Commands hold them as strings; Chars
\* gives the characters of each.
U_github == "https://github.com/o/r.git"
U_evil == "https://evil.com/o/r.git"
U_scp == "git@github.com:o/r.git"
Chars ==
     "git" :> <<"g", "i", "t">>
  @@ "clone" :> <<"c", "l", "o", "n", "e">>
  @@ "fetch" :> <<"f", "e", "t", "c", "h">>
  @@ "pull" :> <<"p", "u", "l", "l">>
  @@ "push" :> <<"p", "u", "s", "h">>
  @@ "rm" :> <<"r", "m">>
  @@ "--depth" :> <<"-", "-", "d", "e", "p", "t", "h">>
  @@ "--single-branch" :> <<"-", "-", "s", "i", "n", "g", "l", "e", "-", "b", "r", "a", "n", "c", "h">>
  @@ "--branch" :> <<"-", "-", "b", "r", "a", "n", "c", "h">>
  @@ "--origin" :> <<"-", "-", "o", "r", "i", "g", "i", "n">>
  @@ "--prune" :> <<"-", "-", "p", "r", "u", "n", "e">>
  @@ "--rebase" :> <<"-", "-", "r", "e", "b", "a", "s", "e">>
  @@ "--ff-only" :> <<"-", "-", "f", "f", "-", "o", "n", "l", "y">>
  @@ "--force" :> <<"-", "-", "f", "o", "r", "c", "e">>
  @@ "1" :> <<"1">>
  @@ "" :> <<>>
  @@ "repo" :> <<"r", "e", "p", "o">>
  @@ "d;x" :> <<"d", ";", "x">>
  @@ "https://github.com/o/r.git" :> <<"h", "t", "t", "p", "s", ":", "/", "/", "g", "i", "t", "h", "u", "b", ".", "c", "o", "m", "/", "o", "/", "r", ".", "g", "i", "t">>
  @@ "https://evil.com/o/r.git" :> <<"h", "t", "t", "p", "s", ":", "/", "/", "e", "v", "i", "l", ".", "c", "o", "m", "/", "o", "/", "r", ".", "g", "i", "t">>
  @@ "git@github.com:o/r.git" :> <<"g", "i", "t", "@", "g", "i", "t", "h", "u", "b", ".", "c", "o", "m", ":", "o", "/", "r", ".", "g", "i", "t">>

\* len(' '.join(cmd_list))
RECURSIVE JoinedLen(_)
JoinedLen(cmd_list) ==
  IF Len(cmd_list) = 0 THEN 0
  ELSE IF Len(cmd_list) = 1 THEN Len(Chars[cmd_list[1]])
  ELSE Len(Chars[cmd_list[1]]) + 1 + JoinedLen(Tail(cmd_list))

\* SubprocessSecurityConfig.ALLOWED_COMMANDS
ALLOWED_COMMANDS ==
  "git" :> (   "clone" :> [min_args |-> 3, max_args |-> 5,
                           allowed_options |-> {"--depth", "--single-branch", "--branch", "--origin"}]
            @@ "fetch" :> [min_args |-> 1, max_args |-> 3,
                           allowed_options |-> {"--depth", "--single-branch", "--prune"}]
            @@ "pull"  :> [min_args |-> 0, max_args |-> 2,
                           allowed_options |-> {"--rebase", "--ff-only"}])

MAX_TIMEOUT == 300
MAX_COMMAND_LENGTH == 1000

\* SecureSubprocess._validate_git_url: "ok" or the CommandValidationError
GitUrlDomains == {<<"g", "i", "t", "h", "u", "b", ".", "c", "o", "m">>,
                  <<"g", "i", "t", "l", "a", "b", ".", "c", "o", "m">>,
                  <<"b", "i", "t", "b", "u", "c", "k", "e", "t", ".", "o", "r", "g">>}
\* re.match of ^<prefix>(github\.com|gitlab\.com|bitbucket\.org)<sep>[a-zA-Z0-9._/-]+\.git$
MatchesGitPattern(url, prefix, sep) ==
  \E domain \in GitUrlDomains :
    LET head == prefix \o domain \o sep
        rest == SubSeq(url, Len(head) + 1, Len(url))
    IN  /\ StartsWith(url, head)
        /\ EndsWith(rest, <<".", "g", "i", "t">>)
        /\ MatchesClass(SubSeq(rest, 1, Len(rest) - 4), PathChars)
_validate_git_url(url) ==
  IF ~(\/ MatchesGitPattern(url, <<"h", "t", "t", "p", "s", ":", "/", "/">>, <<"/">>)
       \/ MatchesGitPattern(url, <<"g", "i", "t", "@">>, <<":">>))
    THEN "Invalid git URL format"
  ELSE LET domain ==
             IF Contains(url, <<"@">>)
               THEN Before(Before(RAfter(url, <<"@">>), <<":">>), <<"/">>)
             ELSE Before(Before(After(url, <<":", "/", "/">>), <<":", "/", "/">>), <<"/">>)
       IN  IF domain \notin GitUrlDomains THEN "Domain not in allowed domains" ELSE "ok"

\* the body of the loop of _validate_arguments for cmd_list[i] (Python
\* counts the same argument as i - 1)
dangerous_patterns ==
  {<<"&">>,
   <<"|">>,
   <<";">>,
   <<"$", "(">>,
   <<Backquote>>,
   <<">">>,
   <<"<">>,
   <<"&", "&">>,
   <<"|", "|">>}
ArgumentError(command, subcommand, cmd_list, i) ==
  LET arg == cmd_list[i]
      chars == Chars[arg]
      allowed_config == ALLOWED_COMMANDS[command][subcommand]
  IN  IF \E pattern \in dangerous_patterns : Contains(chars, pattern)
        THEN "Dangerous pattern detected in argument"
      ELSE IF /\ command = "git" /\ subcommand = "clone" /\ i - 1 = 3
              /\ _validate_git_url(chars) # "ok"
        THEN _validate_git_url(chars)
      ELSE IF StartsWith(chars, <<"-", "-">>) /\ arg \notin allowed_config.allowed_options
        THEN "Option not allowed"
      ELSE "ok"

\* SecureSubprocess._validate_arguments: "ok" or the first error raised
_validate_arguments(command, cmd_list) ==
  IF Len(cmd_list) < 2 THEN "ok"
  ELSE LET subcommand == cmd_list[2]
           allowed_config == ALLOWED_COMMANDS[command][subcommand]
           actual_args == Len(cmd_list) - 2
           failing == {i \in 3..Len(cmd_list) :
                         ArgumentError(command, subcommand, cmd_list, i) # "ok"}
       IN  IF actual_args < allowed_config.min_args \/ actual_args > allowed_config.max_args
             THEN "Invalid argument count"
           ELSE IF failing = {} THEN "ok"
           ELSE ArgumentError(command, subcommand, cmd_list,
                              CHOOSE i \in failing : \A j \in failing : i <= j)

\* _check_rate_limit with the comparison off by one
_check_rate_limit_lenient(history, current_time) ==
  LET window_start == current_time - RATE_LIMIT_WINDOW
      IsRecent(t) == t > window_start
      pruned == SelectSeq(history, IsRecent)
  IN  IF Len(pruned) > RATE_LIMIT_MAX
        THEN [raised |-> TRUE, command_history |-> pruned]
      ELSE [raised |-> FALSE, command_history |-> Append(pruned, current_time)]

\* SecureSubprocess._check_rate_limit: whether it raised, and the
\* command_history it leaves
_check_rate_limit(history, current_time) ==
  LET window_start == current_time - RATE_LIMIT_WINDOW
      IsRecent(t) == t > window_start
      pruned == SelectSeq(history, IsRecent)
  IN  IF Len(pruned) >= RATE_LIMIT_MAX
        THEN [raised |-> TRUE, command_history |-> pruned]
      ELSE [raised |-> FALSE, command_history |-> Append(pruned, current_time)]

\* SecureSubprocess.validate_command for a command given as a list; timeout
\* 0 stands for None. error is "ok" when it returns, otherwise the
\* CommandValidationError it raised
validate_command(history, cmd, timeout, current_time) ==
  LET limit == _check_rate_limit(history, current_time)
      NoEffect(error) == [error |-> error, command_history |-> history]
      Counted(error) == [error |-> error, command_history |-> limit.command_history]
  IN  IF cmd = <<>> THEN NoEffect("Empty command not allowed")
      ELSE IF timeout # 0 /\ timeout > MAX_TIMEOUT THEN NoEffect("Timeout too high")
      ELSE IF JoinedLen(cmd) > MAX_COMMAND_LENGTH THEN NoEffect("Command too long")
      ELSE IF limit.raised THEN Counted("Rate limit exceeded")
      ELSE IF cmd[1] \notin DOMAIN ALLOWED_COMMANDS
        THEN Counted("Command not in allowed commands")
      ELSE IF Len(cmd) > 1 /\ cmd[2] \notin DOMAIN ALLOWED_COMMANDS[cmd[1]]
        THEN Counted("Subcommand not allowed")
      ELSE Counted(_validate_arguments(cmd[1], cmd))

\* what subprocess.run can do once it is called
RunOutcomes == {"completed", "nonzero_exit", "TimeoutExpired", "FileNotFoundError"}

\* execute that builds the process before it looks at the validation
execute_unchecked(history, cmd, timeout, current_time, run_outcome) ==
  LET v == validate_command(history, cmd, timeout, current_time)
  IN  [result |-> IF v.error # "ok" THEN "SecurityError" ELSE "CompletedProcess",
       validated |-> v.error = "ok",
       spawned |-> TRUE, run_outcome |-> run_outcome,
       error |-> v.error,
       command_history |-> v.command_history]

\* SecureSubprocess.execute: what the caller gets (a CompletedProcess or the
\* exception raised), whether validate_command returned, whether
\* subprocess.run was called, and the command_history left behind
execute(history, cmd, timeout, current_time, run_outcome) ==
  LET v == validate_command(history, cmd, timeout, current_time)
  IN  IF v.error # "ok"
        THEN [result |-> "SecurityError", validated |-> FALSE, spawned |-> FALSE,
              run_outcome |-> "",
              error |-> v.error, command_history |-> v.command_history]
      ELSE [result |-> CASE run_outcome \in {"completed", "nonzero_exit"} -> "CompletedProcess"
                         [] run_outcome = "TimeoutExpired" -> "SecurityError"
                         [] OTHER -> "FileNotFoundError",
            validated |-> TRUE, spawned |-> TRUE, run_outcome |-> run_outcome,
            error |-> "ok", command_history |-> v.command_history]

\* the commands callers submit: a clone with up to MaxArgs arguments, the
\* other git subcommands and foreign binaries with up to MaxOtherArgs, a
\* bare git and the empty list
MaxArgs == ALLOWED_COMMANDS["git"]["clone"].max_args - 1
CloneWords == {"--depth", "1", U_github, U_evil, U_scp}
OtherWords == {"--depth", "--force", "1", "d;x"}
ArgLists(words, n) == UNION {[1..k -> words] : k \in 0..n}
Commands ==
  {<<>>, <<"git">>}
  \cup {<<"git", "clone">> \o args : args \in ArgLists(CloneWords, MaxArgs)}
  \cup {prefix \o args :
          prefix \in {<<"git", "fetch">>, <<"git", "pull">>, <<"git", "push">>, <<"rm">>},
          args \in ArgLists(OtherWords, MaxOtherArgs)}
Timeouts == {0, MAX_TIMEOUT + 1}

NoRequest == [cmd |-> <<>>, timeout |-> -1]
NoExCall == [op |-> "none", cmd |-> <<>>, timeout |-> 0, result |-> "",
             validated |-> FALSE, spawned |-> FALSE, run_outcome |-> "",
             error |-> ""]

EXInit ==
  /\ command_history = <<>>
  /\ request = NoRequest
  /\ exCall = NoExCall

\* a caller hands a command to execute()
Submit ==
  /\ request = NoRequest
  /\ exCall.op = "none"
  /\ \E cmd \in Commands, timeout \in Timeouts :
       request' = [cmd |-> cmd, timeout |-> timeout]
  /\ UNCHANGED <<now, rlVars, smVars, pvVars, command_history, exCall, urlVars, amVars, envVars, cloneVars, rwVars, mwVars, authVars, rpVars>>

\* SecureSubprocess.execute runs on the submitted command
Execute(run_outcome) ==
  /\ request # NoRequest
  /\ \E r \in {execute(command_history, request.cmd, request.timeout, now, run_outcome)} :
         /\ command_history' = r.command_history
         /\ exCall' = [op |-> "execute", cmd |-> request.cmd, timeout |-> request.timeout,
                       result |-> r.result, validated |-> r.validated,
                       spawned |-> r.spawned, run_outcome |-> r.run_outcome,
                       error |-> r.error]
  /\ request' = NoRequest
  /\ UNCHANGED <<now, rlVars, smVars, pvVars, urlVars, amVars, envVars, cloneVars, rwVars, mwVars, authVars, rpVars>>

\* the caller takes the result or the exception
Return ==
  /\ exCall.op = "execute"
  /\ exCall' = NoExCall
  /\ UNCHANGED <<now, rlVars, smVars, pvVars, command_history, request, urlVars, amVars, envVars, cloneVars, rwVars, mwVars, authVars, rpVars>>

ExTick ==
  /\ now < MaxExTime
  /\ request = NoRequest
  /\ exCall.op = "none"
  /\ now' = now + 1
  /\ UNCHANGED <<rlVars, smVars, exVars, pvVars, urlVars, amVars, envVars, cloneVars, rwVars, mwVars, authVars, rpVars>>

\* ------------------------------------------------------- PathValidator
\* the characters with codes 32..126, in order
PrintableAscii ==
  <<" ", "!", "\"", "#", "$", "%", "&", "'", "(", ")", "*", "+",
    ",", "-", ".", "/", "0", "1", "2", "3", "4", "5", "6", "7",
    "8", "9", ":", ";", "<", "=", ">", "?", "@", "A", "B", "C",
    "D", "E", "F", "G", "H", "I", "J", "K", "L", "M", "N", "O",
    "P", "Q", "R", "S", "T", "U", "V", "W", "X", "Y", "Z", "[",
    "\\", "]", "^", "_", Backquote, "a", "b", "c", "d", "e", "f", "g",
    "h", "i", "j", "k", "l", "m", "n", "o", "p", "q", "r", "s",
    "t", "u", "v", "w", "x", "y", "z", "{", "|", "}", "~">>

\* urllib.parse.unquote: every %XX with two hex digits becomes the character
\* with that code. "ctl" stands for a character below 32, "nonascii" for
\* what a byte above 127 decodes to.
RECURSIVE unquote(_)
unquote(s) ==
  LET hex == <<"0", "1", "2", "3", "4", "5", "6", "7", "8", "9",
               "a", "b", "c", "d", "e", "f">>
      IsHex(c) == \E v \in 1..16 : hex[v] = LowerChar(c)
      Value(c) == (CHOOSE v \in 1..16 : hex[v] = LowerChar(c)) - 1
      code == 16 * Value(s[2]) + Value(s[3])
  IN  IF s = <<>> THEN <<>>
      ELSE IF s[1] = "%" /\ Len(s) >= 3 /\ IsHex(s[2]) /\ IsHex(s[3])
        THEN <<IF code < 32 THEN "ctl"
               ELSE IF code > 126 THEN "nonascii"
               ELSE PrintableAscii[code - 31]>> \o unquote(SubSeq(s, 4, Len(s)))
      ELSE <<s[1]>> \o unquote(Tail(s))

\* PathValidator.MALICIOUS_PATTERNS, each a plain substring
MALICIOUS_PATTERNS ==
  {<<".", ".", "/">>,
   <<".", ".", "\\">>,
   <<"%", "2", "e", "%", "2", "e", "/">>,
   <<"%", "2", "e", "%", "2", "e", "\\">>,
   <<"%", "2", "5", "2", "e", "%", "2", "5", "2", "e", "/">>,
   <<"%", "2", "5", "2", "e", "%", "2", "5", "2", "e", "\\">>,
   <<".", ".", "%", "2", "f">>,
   <<".", ".", "%", "5", "c">>,
   <<"~", "/">>,
   <<"/", "r", "o", "o", "t", "/">>,
   <<"/", "e", "t", "c", "/">>,
   <<"/", "p", "r", "o", "c", "/">>,
   <<"/", "s", "y", "s", "/">>}

\* PathValidator.VALID_PATH_PATTERN, ^[a-zA-Z0-9._/-\\]+$ : in the class,
\* /-\\ is the range of the characters from "/" to "\", so "-" is no member
ValidPathChars ==
  AlphaNum \cup {".", "_"} \cup {PrintableAscii[k] : k \in 16..61}

\* sanitize_input without the search for MALICIOUS_PATTERNS
sanitize_input_unscreened(path_input) ==
  LET decoded_path == unquote(path_input)
      IsKept(char) == char # "ctl"
      cleaned_path == SelectSeq(decoded_path, IsKept)
  IN  IF ~MatchesClass(cleaned_path, ValidPathChars)
        THEN [error |-> "invalid characters", path |-> <<>>]
      ELSE [error |-> "", path |-> cleaned_path]

\* PathValidator.sanitize_input: the cleaned path, or the error raised
sanitize_input(path_input) ==
  LET decoded_path == unquote(path_input)
      IsKept(char) == char # "ctl"
      cleaned_path == SelectSeq(decoded_path, IsKept)
  IN  IF \E pattern \in MALICIOUS_PATTERNS : Contains(Lower(cleaned_path), pattern)
        THEN [error |-> "malicious pattern", path |-> <<>>]
      ELSE IF ~MatchesClass(cleaned_path, ValidPathChars)
        THEN [error |-> "invalid characters", path |-> <<>>]
      ELSE [error |-> "", path |-> cleaned_path]

\* A filesystem path is the sequence of its components below "/".
\* The trusted base directory /srv/b, a directory beside it, and the places
\* where the layouts put symbolic links.
BaseDir == << <<"s", "r", "v">>, <<"b">> >>
BaseAlias == << <<"s", "r", "v">>, <<"s", "b">> >>
OutsideDir == << <<"s", "r", "v">>, <<"o">> >>
LinkPlace == BaseDir \o << <<"l">> >>

\* what the link LinkPlace can be: absent, or a link with an absolute or a
\* relative target, inside or outside the base. /srv/sb always links to the
\* base. No layout has a loop.
LinkTargets ==
  {[absolute |-> TRUE, parts |-> BaseDir \o << <<"a">> >>],
   [absolute |-> TRUE, parts |-> OutsideDir],
   [absolute |-> FALSE, parts |-> << <<".", ".">>, <<"o">> >>],
   [absolute |-> FALSE, parts |-> << <<"a">> >>]}
Layouts ==
  LET alias == BaseAlias :> [absolute |-> TRUE, parts |-> BaseDir]
  IN  {alias} \cup {alias @@ (LinkPlace :> target) : target \in LinkTargets}

\* resolve that normalises "." and ".." but follows no link
RECURSIVE resolve_lexical(_, _, _)
resolve_lexical(links, prefix, rest) ==
  IF rest = <<>> THEN prefix
  ELSE LET part == Head(rest)
       IN  IF part = <<>> \/ part = <<".">> THEN resolve_lexical(links, prefix, Tail(rest))
           ELSE IF part = <<".", ".">>
             THEN resolve_lexical(links, SubSeq(prefix, 1, Len(prefix) - 1), Tail(rest))
           ELSE resolve_lexical(links, Append(prefix, part), Tail(rest))

\* Path.resolve() of the path made of the components `rest` below the
\* resolved directory `prefix`
RECURSIVE resolve(_, _, _)
resolve(links, prefix, rest) ==
  IF rest = <<>> THEN prefix
  ELSE LET part == Head(rest)
           here == Append(prefix, part)
       IN  IF part = <<>> \/ part = <<".">> THEN resolve(links, prefix, Tail(rest))
           ELSE IF part = <<".", ".">>
             THEN resolve(links, SubSeq(prefix, 1, Len(prefix) - 1), Tail(rest))
           ELSE IF here \in DOMAIN links
             THEN resolve(links, IF links[here].absolute THEN <<>> ELSE prefix,
                          links[here].parts \o Tail(rest))
           ELSE resolve(links, here, Tail(rest))

\* path.relative_to(base_path) does not raise
IsWithin(path, base_path) ==
  Len(path) >= Len(base_path) /\ SubSeq(path, 1, Len(base_path)) = base_path

\* PathValidator._check_symlink_security
_check_symlink_security(links, base_path, target_path) ==
  \E k \in 1..Len(target_path) :
    LET current_path == SubSeq(target_path, 1, k)
    IN  /\ current_path \in DOMAIN links
        /\ ~IsWithin(resolve(links, <<>>, current_path), base_path)

\* validate_path without the relative_to test of the resolved target
validate_path_unchecked(links, base_input, relative_input) ==
  LET base_path == resolve(links, <<>>, base_input)
      clean == sanitize_input(relative_input)
      relative_path == clean.path
      target_path == IF relative_path[1] = "/" THEN SplitSlash(relative_path)
                     ELSE base_path \o SplitSlash(relative_path)
      resolved_target == resolve(links, <<>>, target_path)
      Raise(error) == [raised |-> TRUE, error |-> error, path |-> <<>>]
  IN  IF clean.error # "" THEN Raise(clean.error)
      ELSE IF relative_path = <<>> \/ relative_path = <<".">>
        THEN [raised |-> FALSE, error |-> "", path |-> base_path]
      ELSE IF _check_symlink_security(links, base_path, resolved_target)
        THEN Raise("Symlink attempts to access paths outside allowed directory")
      ELSE [raised |-> FALSE, error |-> "", path |-> resolved_target]

\* PathValidator.validate_path: the Path returned, or the PathTraversalError
validate_path(links, base_input, relative_input) ==
  LET base_path == resolve(links, <<>>, base_input)
      clean == sanitize_input(relative_input)
      relative_path == clean.path
      target_path == IF relative_path[1] = "/" THEN SplitSlash(relative_path)
                     ELSE base_path \o SplitSlash(relative_path)
      resolved_target == resolve(links, <<>>, target_path)
      Raise(error) == [raised |-> TRUE, error |-> error, path |-> <<>>]
  IN  IF clean.error # "" THEN Raise(clean.error)
      ELSE IF relative_path = <<>> \/ relative_path = <<".">>
        THEN [raised |-> FALSE, error |-> "", path |-> base_path]
      ELSE IF ~IsWithin(resolved_target, base_path) THEN Raise("Path traversal detected")
      ELSE IF _check_symlink_security(links, base_path, resolved_target)
        THEN Raise("Symlink attempts to access paths outside allowed directory")
      ELSE [raised |-> FALSE, error |-> "", path |-> resolved_target]

\* the relative paths callers pass: up to MaxSegments names joined by one
\* kind of separator, with or without a leading separator
SegmentNames ==
  {<<"a">>, <<"l">>, <<".">>, <<".", ".">>, <<"e", "t", "c">>,
   <<"%", "2", "e", "%", "2", "e">>,
   <<"%", "2", "5", "2", "e", "%", "2", "5", "2", "e">>}
Separators ==
  {<<"/">>, <<"\\">>, <<"%", "2", "f">>, <<"%", "2", "5", "2", "f">>}
RECURSIVE JoinWith(_, _)
JoinWith(names, sep) ==
  IF Len(names) = 1 THEN names[1]
  ELSE names[1] \o sep \o JoinWith(Tail(names), sep)
RelativePaths ==
  {lead \o JoinWith(names, sep) :
     names \in UNION {[1..k -> SegmentNames] : k \in 1..MaxSegments},
     sep \in Separators, lead \in {<<>>, <<"/">>}}

NoPvCall == [op |-> "none", raised |-> FALSE, error |-> "", path |-> <<>>]

\* no link but the alias of the base, and no call under way
PVIdle ==
  /\ fs_links = (BaseAlias :> [absolute |-> TRUE, parts |-> BaseDir])
  /\ pvRequest = [base_path |-> BaseDir, relative_path |-> <<"a">>]
  /\ pvCall = NoPvCall

\* a symlink layout, and a caller about to validate a path against it
PVInit ==
  /\ fs_links \in Layouts
  /\ pvRequest \in [base_path : {BaseDir, BaseAlias}, relative_path : RelativePaths]
  /\ pvCall = NoPvCall

\* PathValidator.validate_path runs on the request
ValidatePath ==
  /\ pvCall.op = "none"
  /\ \E r \in {validate_path(fs_links, pvRequest.base_path, pvRequest.relative_path)} :
       pvCall' = [op |-> "validate_path", raised |-> r.raised,
                  error |-> r.error, path |-> r.path]
  /\ UNCHANGED <<now, rlVars, smVars, exVars, urlVars, fs_links, pvRequest, amVars, envVars, cloneVars, rwVars, mwVars, authVars, rpVars>>

\* ------------------------------------------------------- URLs callers pass
\* scheme and slashes
UrlSchemes ==
  {<<"h", "t", "t", "p", "s", ":", "/", "/">>,
   <<"s", "s", "h", ":", "/", "/">>,
   <<"f", "t", "p", ":", "/", "/">>}
\* an access token a caller may put in the place of the user name
SecretTokens ==
  {<<"g", "h", "p", "_", "t", "o", "k">>}
\* the userinfo of a URL: none, the user git, a token, a user and a password,
\* a user and an empty password
UrlUserinfos ==
  {<<>>, <<"g", "i", "t", "@">>, <<"u", "s", "e", "r", ":", "p", "w", "@">>, <<"u", "s", "e", "r", ":", "@">>}
  \cup {t \o <<"@">> : t \in SecretTokens}
\* host names
UrlHosts ==
  {<<"g", "i", "t", "h", "u", "b", ".", "c", "o", "m">>,
   <<"G", "i", "t", "H", "u", "b", ".", "c", "o", "m">>,
   <<"e", "v", "i", "l", ".", "c", "o", "m">>}
\* ports
UrlPorts ==
  {<<>>, <<":">>, <<":", "0">>, <<":", "0", "4", "4", "3">>, <<":", "9", "9", "9", "9", "9">>}
\* paths
UrlPaths ==
  {<<>>, <<"/", "o", "/", "r", ".", "g", "i", "t">>}
\* queries: none, an empty one, and one that holds a tab
UrlQueries ==
  {<<>>, <<"?">>, <<"?", "$", "\t", "(", "x", ")">>}
\* fragments: none, and one that holds a line feed
UrlFragments ==
  {<<>>, <<"#", "a", "\n", "#", "b">>}

Urls ==
  {s \o u \o h \o p \o path \o query \o f :
     s \in UrlSchemes, u \in UrlUserinfos, h \in UrlHosts, p \in UrlPorts,
     path \in UrlPaths, query \in UrlQueries, f \in UrlFragments}

NoUrlCall == [op |-> "none", url |-> <<>>, raised |-> FALSE, error |-> "", result |-> <<>>]

\* no URL call under way
URLIdle ==
  /\ urlRequest = [url |-> <<>>, from_result |-> FALSE]
  /\ urlCall = NoUrlCall

\* a caller holds a URL
URLInit ==
  /\ urlRequest \in [url : Urls, from_result : {FALSE}]
  /\ urlCall = NoUrlCall

\* URLValidator.validate_url runs on the caller's URL
ValidateUrl ==
  /\ urlCall.op = "none"
  /\ urlRequest.url # <<>>
  /\ \E r \in {validate_url(urlRequest.url)} :
       urlCall' = [op |-> "validate_url", url |-> urlRequest.url,
                   raised |-> (r # "ok"), error |-> (IF r = "ok" THEN "" ELSE r),
                   result |-> <<>>]
  /\ UNCHANGED <<now, rlVars, smVars, exVars, pvVars, urlRequest, amVars, envVars, cloneVars, rwVars, mwVars, authVars, rpVars>>

\* sanitize_repository_url runs on the caller's URL
SanitizeRepositoryUrl ==
  /\ urlCall.op = "none"
  /\ urlRequest.url # <<>>
  /\ \E r \in {sanitize_repository_url(urlRequest.url)} :
       urlCall' = [op |-> "sanitize_repository_url", url |-> urlRequest.url,
                   raised |-> r.raised, error |-> r.error, result |-> r.result]
  /\ UNCHANGED <<now, rlVars, smVars, exVars, pvVars, urlRequest, amVars, envVars, cloneVars, rwVars, mwVars, authVars, rpVars>>

\* the caller takes the sanitized URL and is about to pass it on
PassOn ==
  /\ urlCall.op = "sanitize_repository_url"
  /\ ~urlCall.raised
  /\ ~urlRequest.from_result
  /\ urlRequest' = [url |-> urlCall.result, from_result |-> TRUE]
  /\ urlCall' = NoUrlCall
  /\ UNCHANGED <<now, rlVars, smVars, exVars, pvVars, amVars, envVars, cloneVars, rwVars, mwVars, authVars, rpVars>>

\* ------------------------------------------------------- SecurityMonitor
\* two of the AlertType values, and the client addresses alerts are about
AlertTypes == {"BRUTE_FORCE", "RATE_LIMIT_ABUSE"}
AlertIPs == {"10.0.0.1", "10.0.0.2"}

\* f"{alert_type.value}_{ip_address}"
suppression_key_by_type(alert_type, ip_address) == alert_type \o "_"
suppression_key(alert_type, ip_address) == alert_type \o "_" \o ip_address

\* SecurityMonitor._generate_alert: the alerts and the suppression table it
\* leaves, whether it appended the alert, and the metric it incremented
_generate_alert(alert_list, suppression, alert_type, ip_address, current_time) ==
  LET key == suppression_key(alert_type, ip_address) IN
  IF key \in DOMAIN suppression /\ current_time < suppression[key]
  THEN [alerts |-> alert_list, alert_suppression |-> suppression,
        emitted |-> FALSE, metric |-> "suppressed_alerts"]
  ELSE [alerts |-> Append(alert_list, [alert_type |-> alert_type,
                                       ip_address |-> ip_address,
                                       timestamp |-> current_time]),
        alert_suppression |-> Put(suppression, key, current_time + alert_suppression_window),
        emitted |-> TRUE, metric |-> "alerts_generated"]

NoAmCall == [op |-> "none", alert_type |-> "", ip_address |-> "",
             emitted |-> FALSE, metric |-> ""]

\* SecurityMonitor.__init__
AMInit ==
  /\ alerts = <<>>
  /\ alert_suppression = EmptyDict
  /\ amCall = NoAmCall
  /\ emittedAt = [t \in AlertTypes, ip \in AlertIPs |-> -1]

\* _check_security_patterns or _check_rate_limit_abuse found its threshold
\* met for ip_address and calls _generate_alert
GenerateAlert(alert_type, ip_address) ==
  /\ Len(alerts) < MaxAlerts
  /\ \E r \in {_generate_alert(alerts, alert_suppression, alert_type, ip_address, now)} :
       /\ alerts' = r.alerts
       /\ alert_suppression' = r.alert_suppression
       /\ amCall' = [op |-> "_generate_alert", alert_type |-> alert_type,
                     ip_address |-> ip_address, emitted |-> r.emitted,
                     metric |-> r.metric]
       /\ emittedAt' = IF r.emitted
                       THEN [emittedAt EXCEPT ![alert_type, ip_address] = now]
                       ELSE emittedAt
  /\ UNCHANGED <<now, rlVars, smVars, exVars, pvVars, urlVars, envVars, cloneVars, rwVars, mwVars, authVars, rpVars>>

\* SecurityMonitor.cleanup_old_data: alerts older than the retention time and
\* suppression entries that have run out are dropped
CleanupOldData ==
  /\ alerts' = SelectSeq(alerts, LAMBDA a : a.timestamp > now - AlertRetention)
  /\ alert_suppression' =
       [k \in {j \in DOMAIN alert_suppression : alert_suppression[j] > now}
          |-> alert_suppression[k]]
  /\ amCall' = [NoAmCall EXCEPT !.op = "cleanup_old_data"]
  /\ UNCHANGED <<now, rlVars, smVars, exVars, pvVars, urlVars, emittedAt, envVars, cloneVars, rwVars, mwVars, authVars, rpVars>>

\* ------------------------------------------------------- the child's environment
MAX_ENV_VALUE_LENGTH == 1000
safe_keys == {"PATH", "HOME", "USER", "LANG", "LC_ALL"}
GitDefaults == {"GIT_TERMINAL_PROMPT", "GIT_SSH_COMMAND"}

\* a value of an environment dict: who put it there, whether it is a str,
\* and its length
EnvValue(origin, is_str, length) == [origin |-> origin, is_str |-> is_str, length |-> length]
None == [none |-> TRUE]

\* SecureSubprocess._sanitize_environment: a copy of os.environ, overlaid
\* with the caller's safe keys and with the git defaults
_sanitize_environment(environ, env) ==
  LET accepted == IF env = None THEN {}
                  ELSE {key \in DOMAIN env : /\ key \in safe_keys
                                             /\ env[key].is_str
                                             /\ env[key].length < MAX_ENV_VALUE_LENGTH}
  IN  [key \in DOMAIN environ \cup accepted \cup GitDefaults |->
         IF key \in GitDefaults THEN EnvValue("executor", TRUE, 1)
         ELSE IF key \in accepted THEN env[key]
         ELSE environ[key]]

\* what the server process may have in its environment, and what callers pass
ParentNames == {"PATH", "SECRET", "GIT_TERMINAL_PROMPT"}
CallerNames == {"PATH", "HOME", "SECRET"}
CallerValues == {EnvValue("caller", TRUE, 8),
                 EnvValue("caller", TRUE, MAX_ENV_VALUE_LENGTH),
                 EnvValue("caller", FALSE, 0)}
Environs == UNION {[names -> {EnvValue("parent", TRUE, 8)}] : names \in SUBSET ParentNames}
CallerEnvs == {None} \cup UNION {[names -> CallerValues] : names \in SUBSET CallerNames}

NoEnvCall == [op |-> "none", safe_env |-> EmptyDict]

\* no environment call under way
ENVIdle ==
  /\ os_environ = EmptyDict
  /\ envRequest = None
  /\ envCall = NoEnvCall

\* a server process with its environment, and a caller about to run a command
ENVInit ==
  /\ os_environ \in Environs
  /\ envRequest \in CallerEnvs
  /\ envCall = NoEnvCall

\* execute prepares the environment of the process it is about to spawn
SanitizeEnvironment ==
  /\ envCall.op = "none"
  /\ envCall' = [op |-> "_sanitize_environment",
                 safe_env |-> _sanitize_environment(os_environ, envRequest)]
  /\ UNCHANGED <<now, rlVars, smVars, exVars, pvVars, urlVars, amVars, os_environ, envRequest, cloneVars, rwVars, mwVars, authVars, rpVars>>

\* ------------------------------------------------------- handlers that clone
\* execute_git_clone
execute_git_clone(history, repo_url, target_dir, timeout, current_time, run_outcome) ==
  execute(history, <<"git", "clone", "--depth", "1", repo_url, target_dir>>,
          timeout, current_time, run_outcome)

\* is_valid_repository_url
is_valid_repository_url(url) == validate_url(Chars[url]) = "ok"

\* the repo_url of a request body or of a project row
RepoUrls == {"", U_github, U_evil, U_scp}

NoCloneCall == [handler |-> "none", repo_url |-> "", url_validated |-> FALSE,
                spawned |-> FALSE, response |-> ""]

CLInit == cloneCall = NoCloneCall

\* the part get_file_llm_documentation and analyze_project_task share: the
\* URL is validated, then execute_git_clone runs
ValidatedClone(handler, repo_url, run_outcome) ==
  IF ~is_valid_repository_url(repo_url)
  THEN /\ cloneCall' = [handler |-> handler, repo_url |-> repo_url,
                        url_validated |-> FALSE, spawned |-> FALSE,
                        response |-> "Invalid repository URL"]
       /\ UNCHANGED command_history
  ELSE \E r \in {execute_git_clone(command_history, repo_url, "repo", MAX_TIMEOUT,
                                   now, run_outcome)} :
         /\ command_history' = r.command_history
         /\ cloneCall' = [handler |-> handler, repo_url |-> repo_url,
                          url_validated |-> TRUE, spawned |-> r.spawned,
                          response |-> r.result]

\* routers/docs.py get_file_llm_documentation, the repository not being on disk
GetFileLlmDocumentation(repo_url, run_outcome) ==
  /\ ValidatedClone("get_file_llm_documentation", repo_url, run_outcome)
  /\ UNCHANGED <<now, rlVars, smVars, pvVars, urlVars, amVars, envVars, request, exCall, rwVars, mwVars, authVars, rpVars>>

\* tasks.py analyze_project_task
AnalyzeProjectTask(repo_url, run_outcome) ==
  /\ ValidatedClone("analyze_project_task", repo_url, run_outcome)
  /\ UNCHANGED <<now, rlVars, smVars, pvVars, urlVars, amVars, envVars, request, exCall, rwVars, mwVars, authVars, rpVars>>

\* routers/projects.py stateless_extract_docs: subprocess.run on the URL of
\* the request body
StatelessExtractDocs(repo_url, run_outcome) ==
  /\ cloneCall' = IF repo_url = ""
                  THEN [handler |-> "stateless_extract_docs", repo_url |-> repo_url,
                        url_validated |-> FALSE, spawned |-> FALSE,
                        response |-> "Missing 'repo_url' in request body"]
                  ELSE [handler |-> "stateless_extract_docs", repo_url |-> repo_url,
                        url_validated |-> FALSE, spawned |-> TRUE,
                        response |-> run_outcome]
  /\ UNCHANGED <<now, rlVars, smVars, exVars, pvVars, urlVars, amVars, envVars, rwVars, mwVars, authVars, rpVars>>

\* ------------------------------------ validate_command, called directly
\* a command validate_command accepts, one it rejects after the rate check,
\* and one it rejects before the rate check
WindowCommands == {<<"git", "pull">>, <<"rm">>, <<>>}

NoVcCall == [op |-> "none", cmd |-> <<>>, error |-> ""]

RWIdle ==
  /\ passed = <<>>
  /\ limited_at = -1
  /\ vcCall = NoVcCall

\* secure_subprocess.validate_command(cmd) at the current time
ValidateCommand(cmd) ==
  /\ \E r \in {validate_command(command_history, cmd, 0, now)} :
       /\ command_history' = r.command_history
       /\ passed' = IF r.error = "ok" THEN Append(passed, now) ELSE passed
       /\ limited_at' = IF r.error = "Rate limit exceeded" THEN now ELSE limited_at
       /\ vcCall' = [op |-> "validate_command", cmd |-> cmd, error |-> r.error]
  /\ UNCHANGED <<now, rlVars, smVars, request, exCall, pvVars, urlVars, amVars, envVars, cloneVars, mwVars, authVars, rpVars>>

\* ------------------------------ InputValidationMiddleware and its RateLimiter
\* time.time() returns a float: Resolution clock readings per second
Resolution == 2
MaxTicks == MaxTime

\* record_attempt prunes when the list length is a multiple of this
PRUNE_EVERY == 10

\* f"{client_ip}:{endpoint}"
Key(client_ip, endpoint) == <<client_ip, endpoint>>

\* middleware RateLimiter.is_rate_limited at clock reading t: the returned
\* pair and the dictionaries after the call
mw_is_rate_limited(req, blk, key, t, W, N, B) ==
  LET blocked == key \in DOMAIN blk /\ t < blk[key]
      blk1 == IF key \in DOMAIN blk /\ ~blocked THEN Del(blk, key) ELSE blk
      pruned == PruneOld(Get(req, key), t - W * Resolution)
      req1 == Put(req, key, pruned)
  IN  IF blocked
        THEN [limited |-> TRUE, retry_after |-> (blk[key] - t) \div Resolution,
              requests |-> req, blocks |-> blk]
      ELSE IF Len(pruned) >= N
        THEN [limited |-> TRUE, retry_after |-> B,
              requests |-> req1, blocks |-> Put(blk1, key, t + B * Resolution)]
      ELSE [limited |-> FALSE, retry_after |-> 0, requests |-> req1, blocks |-> blk1]

\* middleware RateLimiter.record_attempt: the requests dictionary after it
mw_record_attempt(req, key, t, W) ==
  LET xs == Get(req, key)
      cleaned == IF Len(xs) % PRUNE_EVERY = 0
                   THEN PruneOld(xs, t - W * Resolution)
                 ELSE xs
  IN  Put(req, key, Append(cleaned, t))

AuthEndpoints == {"/auth/me"}
unlimited_endpoints == {"/health", "/metrics", "/docs"}
strict_endpoints == {"/projects"}
MwEndpoints == {"/projects", "/health", "/auth/me"}
MwClients == {"ip1"}

\* the endpoint name _check_rate_limit hands to the limiter
LimiterEndpoint(endpoint) ==
  IF endpoint \in strict_endpoints THEN "/projects_strict" ELSE endpoint
\* the keys the middleware hands to the limiter
MwKeys == {Key(c, LimiterEndpoint(e)) :
             c \in MwClients, e \in MwEndpoints \ (AuthEndpoints \cup unlimited_endpoints)}

\* InputValidationMiddleware._check_rate_limit: whether it raised, and the
\* limiter's dictionaries after the call
mw_check_rate_limit(req, blk, client_ip, endpoint, t, W, N, B) ==
  LET key == Key(client_ip, LimiterEndpoint(endpoint))
      r == mw_is_rate_limited(req, blk, key, t, W, N, B)
  IN  IF endpoint \in unlimited_endpoints
        THEN [raised |-> FALSE, retry_after |-> 0, requests |-> req, blocks |-> blk]
      ELSE IF r.limited
        THEN [raised |-> TRUE, retry_after |-> r.retry_after,
              requests |-> mw_record_attempt(r.requests, key, t, W),
              blocks |-> r.blocks]
      ELSE [raised |-> FALSE, retry_after |-> 0, requests |-> r.requests, blocks |-> r.blocks]

\* what the client receives when _check_rate_limit raises
\* HTTPException(response=response): the 429 response it built, or the
\* server error the framework makes of the constructor call
LimitedStatuses == {429, 500}

\* the times of a history that lie in the window reaching back from the
\* clock reading
RecentTicks(xs) == SelectSeq(xs, LAMBDA t : t > ticks - window_size * Resolution)

NoMwCall == [op |-> "none", client_ip |-> "", endpoint |-> "", status |-> 0,
             limited |-> FALSE, retry_after |-> 0, remaining |-> 0,
             admitted_before |-> 0, moved |-> FALSE]

MWIdle ==
  /\ ticks = 0
  /\ requests = EmptyDict
  /\ key_blocks = EmptyDict
  /\ mwCall = NoMwCall
  /\ admitted = [k \in MwKeys |-> <<>>]

\* InputValidationMiddleware.dispatch for a well-formed request
Dispatch(client_ip, endpoint, limited_status) ==
  LET key == Key(client_ip, LimiterEndpoint(endpoint)) IN
  /\ Len(Get(requests, key)) <= MaxRecorded
  /\ \E before \in {IF key \in MwKeys THEN Len(RecentTicks(admitted[key])) ELSE 0} :
     \E r \in {mw_check_rate_limit(requests, key_blocks, client_ip, endpoint, ticks,
                                   window_size, max_attempts, block_duration)} :
     \E through \in {(endpoint \in AuthEndpoints) \/ ~r.raised} :
       /\ before <= MaxRecorded
       /\ requests' = IF endpoint \in AuthEndpoints THEN requests ELSE r.requests
       /\ key_blocks' = IF endpoint \in AuthEndpoints THEN key_blocks ELSE r.blocks
       /\ admitted' = IF key \notin MwKeys THEN admitted
                      ELSE [admitted EXCEPT ![key] =
                              IF through THEN Append(RecentTicks(@), ticks)
                              ELSE RecentTicks(@)]
       /\ mwCall' = [NoMwCall EXCEPT !.op = "dispatch", !.client_ip = client_ip,
                                     !.endpoint = endpoint,
                                     !.status = IF through THEN 200 ELSE limited_status,
                                     !.limited = ~through,
                                     !.retry_after = IF through THEN 0 ELSE r.retry_after,
                                     !.admitted_before = before]
  /\ UNCHANGED <<now, rlVars, smVars, exVars, pvVars, urlVars, amVars, envVars, cloneVars, rwVars, ticks, authVars, rpVars>>

\* a caller asks the limiter is_rate_limited(client_ip, endpoint)
MwIsRateLimited(client_ip, endpoint) ==
  LET key == Key(client_ip, endpoint)
      inBlock == key \in DOMAIN key_blocks /\ ticks < key_blocks[key]
  IN  /\ \E r \in {mw_is_rate_limited(requests, key_blocks, key, ticks,
                                      window_size, max_attempts, block_duration)} :
           /\ requests' = r.requests
           /\ key_blocks' = r.blocks
           /\ mwCall' = [NoMwCall EXCEPT !.op = "is_rate_limited", !.client_ip = client_ip,
                                         !.endpoint = endpoint, !.limited = r.limited,
                                         !.retry_after = r.retry_after,
                                         !.remaining = IF inBlock THEN key_blocks[key] - ticks ELSE 0,
                                         !.moved = inBlock /\ r.blocks[key] # key_blocks[key]]
      /\ UNCHANGED <<now, rlVars, smVars, exVars, pvVars, urlVars, amVars, envVars, cloneVars, rwVars, ticks, admitted, authVars, rpVars>>

\* a caller tells the limiter record_attempt(client_ip, endpoint)
MwRecordAttempt(client_ip, endpoint) ==
  LET key == Key(client_ip, endpoint) IN
  /\ Len(Get(requests, key)) < MaxRecorded
  /\ requests' = mw_record_attempt(requests, key, ticks, window_size)
  /\ mwCall' = [NoMwCall EXCEPT !.op = "record_attempt", !.client_ip = client_ip,
                                !.endpoint = endpoint]
  /\ UNCHANGED <<now, rlVars, smVars, exVars, pvVars, urlVars, amVars, envVars, cloneVars, rwVars, ticks, key_blocks, admitted, authVars, rpVars>>

\* the clock of the middleware's limiter moves on
MwTick ==
  /\ ticks < MaxTicks
  /\ ticks' = ticks + 1
  /\ UNCHANGED <<now, rlVars, smVars, exVars, pvVars, urlVars, amVars, envVars, cloneVars, rwVars, requests, key_blocks, mwCall, admitted, authVars, rpVars>>

\* ------------------------------------------- get_current_user_secure
\* the requests of one client that may be in flight together
AuthRequests == 1..(MaxMaxAttempts + 1)
AuthClient == "ip1"

\* the Authorization header of a request: absent, a Bearer token that fails
\* validate_token_integrity, a Bearer token that passes it
AuthHeaders == {"missing", "forged", "bearer"}

NotStarted == [at |-> "idle", reached |-> -1, status |-> 0]

AUTHIdle == handlers = [r \in AuthRequests |-> NotStarted]

\* get_current_user_secure from its start to its first await: the rate
\* limit check and the checks of the header
AuthBegin(r, header) ==
  /\ handlers[r].at = "idle"
  /\ \E c \in {is_rate_limited(attempts, blocks, AuthClient, now,
                               window_size, max_attempts, block_duration)} :
       IF c.limited
         THEN /\ attempts' = c.attempts
              /\ blocks' = c.blocks
              /\ handlers' = [handlers EXCEPT ![r] = [at |-> "done", reached |-> -1, status |-> 429]]
       ELSE IF header # "bearer"
         THEN /\ attempts' = record_attempt(c.attempts, AuthClient, FALSE, now)
              /\ blocks' = c.blocks
              /\ handlers' = [handlers EXCEPT ![r] = [at |-> "done", reached |-> -1, status |-> 401]]
       ELSE /\ attempts' = c.attempts
            /\ blocks' = c.blocks
            /\ handlers' = [handlers EXCEPT ![r] = [at |-> "awaiting", reached |-> now, status |-> 0]]
  /\ UNCHANGED <<now, window_size, max_attempts, block_duration, rlCall, servedBy, blockedBy, blockSetAt, failed, smVars, exVars, pvVars, urlVars, amVars, envVars, cloneVars, rwVars, mwVars, rpVars>>

\* get_current_user_secure from the return of
\* authenticate_user_from_supabase to its end
AuthResume(r, user_found) ==
  /\ handlers[r].at = "awaiting"
  /\ attempts' = record_attempt(attempts, AuthClient, user_found, now)
  /\ handlers' = [handlers EXCEPT ![r].at = "done",
                                  ![r].status = IF user_found THEN 200 ELSE 401]
  /\ UNCHANGED <<now, window_size, max_attempts, block_duration, blocks, rlCall, servedBy, blockedBy, blockSetAt, failed, smVars, exVars, pvVars, urlVars, amVars, envVars, cloneVars, rwVars, mwVars, rpVars>>

\* ------------------------------------------- resolve_repo_path_safe
\* the most entries the allowed list is let grow to
MaxAllowed == 3

\* str(path) of an absolute path
RECURSIVE PathStr(_)
PathStr(path) ==
  IF path = <<>> THEN <<"/">>
  ELSE IF Len(path) = 1 THEN <<"/">> \o path[1]
  ELSE PathStr(SubSeq(path, 1, Len(path) - 1)) \o <<"/">> \o path[Len(path)]

\* Path.parent of an absolute path
Parent(path) == IF path = <<>> THEN <<>> ELSE SubSeq(path, 1, Len(path) - 1)

\* Path(repo_path).resolve(): a relative path is taken from the working
\* directory, here the project root
PathResolve(links, cwd, path_input) ==
  IF path_input[1] = "/" THEN resolve(links, <<>>, SplitSlash(path_input))
  ELSE resolve(links, <<>>, cwd \o SplitSlash(path_input))

\* PathValidator.add_allowed_path: the list after the call
add_allowed_path(links, allowed, path) ==
  Append(allowed, PathStr(resolve(links, <<>>, path)))

\* PathValidator.is_path_allowed
is_path_allowed(links, allowed, path) ==
  \E i \in 1..Len(allowed) :
    StartsWith(PathStr(resolve(links, <<>>, path)), allowed[i])

\* Path(__file__).parent.parent.parent
project_root == BaseDir

\* resolve_repo_path_safe: the path it returns or the PathTraversalError it
\* raises, and the validator's allowed list after the call
resolve_repo_path_safe(links, allowed, repo_path) ==
  LET Checked(r) == [raised |-> r.raised, error |-> r.error, path |-> r.path,
                     allowed_paths |-> allowed]
      path_obj == PathResolve(links, project_root, repo_path)
      allowed1 == add_allowed_path(links, allowed, Parent(path_obj))
  IN  IF repo_path = <<".">>
        THEN Checked(validate_path(links, project_root, <<".">>))
      ELSE IF StartsWith(repo_path, <<"r", "e", "p", "o", "s", "/">>)
        THEN Checked(validate_path(links, project_root, repo_path))
      ELSE IF ~is_path_allowed(links, allowed1, path_obj)
        THEN [raised |-> TRUE, error |-> "Repository path not allowed",
              path |-> <<>>, allowed_paths |-> allowed1]
      ELSE [raised |-> FALSE, error |-> "", path |-> path_obj, allowed_paths |-> allowed1]

\* whether resolve_repo_path_safe takes repo_path for a direct path
IsDirect(repo_path) ==
  repo_path # <<".">> /\ ~StartsWith(repo_path, <<"r", "e", "p", "o", "s", "/">>)

\* the directories a caller puts on the allowed list
AllowedDirs == {BaseDir, OutsideDir}

\* the repo paths handed in: the project root, a repository under repos/,
\* and direct paths inside the base, through a link, outside, and elsewhere
RepoPaths ==
  {<<".">>, <<"r", "e", "p", "o", "s", "/", "a">>}
  \cup {PathStr(p) : p \in {BaseDir \o << <<"a">> >>, LinkPlace, OutsideDir,
                            BaseAlias \o << <<"a">> >>, << <<"e", "t", "c">> >>}}

NoRpCall == [op |-> "none", repo_path |-> <<>>, raised |-> FALSE, path |-> <<>>,
             direct |-> FALSE, allowed_before |-> FALSE]

RPIdle ==
  /\ allowed_paths = <<>>
  /\ rpCall = NoRpCall

\* a caller runs validator.add_allowed_path(path)
AddAllowedPath(path) ==
  /\ Len(allowed_paths) < MaxAllowed
  /\ allowed_paths' = add_allowed_path(fs_links, allowed_paths, path)
  /\ rpCall' = [NoRpCall EXCEPT !.op = "add_allowed_path", !.path = path]
  /\ UNCHANGED <<now, rlVars, smVars, exVars, pvVars, urlVars, amVars, envVars, cloneVars, rwVars, mwVars, authVars>>

\* a caller runs resolve_repo_path_safe(repo_path, validator)
ResolveRepoPathSafe(repo_path) ==
  /\ Len(allowed_paths) < MaxAllowed
  /\ \E r \in {resolve_repo_path_safe(fs_links, allowed_paths, repo_path)} :
       /\ allowed_paths' = r.allowed_paths
       /\ rpCall' = [op |-> "resolve_repo_path_safe", repo_path |-> repo_path,
                     raised |-> r.raised, path |-> r.path,
                     direct |-> IsDirect(repo_path),
                     allowed_before |->
                       is_path_allowed(fs_links, allowed_paths,
                                       PathResolve(fs_links, project_root, repo_path))]
  /\ UNCHANGED <<now, rlVars, smVars, exVars, pvVars, urlVars, amVars, envVars, cloneVars, rwVars, mwVars, authVars>>

\* time passes
Tick ==
  /\ now < MaxTime
  /\ now' = now + 1
  /\ UNCHANGED <<rlVars, smVars, exVars, pvVars, urlVars, amVars, envVars, cloneVars, rwVars, mwVars, authVars, rpVars>>

SmTick ==
  /\ now < MaxSmTime
  /\ now' = now + 1
  /\ UNCHANGED <<rlVars, smVars, exVars, pvVars, urlVars, amVars, envVars, cloneVars, rwVars, mwVars, authVars, rpVars>>

\* the RateLimiter as constructed at security_middleware.py:441, scaled
RLIdle ==
  /\ window_size = 1
  /\ max_attempts = 1
  /\ block_duration = 1
  /\ attempts = EmptyDict
  /\ blocks = EmptyDict
  /\ rlCall = NoCall
  /\ servedBy = [i \in Identifiers |-> <<>>]
  /\ blockedBy = [i \in Identifiers |-> ""]
  /\ blockSetAt = [i \in Identifiers |-> -1]
  /\ failed = [i \in Identifiers |-> <<>>]

Init ==
  /\ now = 0
  /\ RLInit
  /\ SMInit
  /\ EXInit
  /\ PVIdle
  /\ URLIdle
  /\ AMInit
  /\ ENVIdle
  /\ CLInit
  /\ RWIdle
  /\ MWIdle
  /\ AUTHIdle
  /\ RPIdle

RLNext ==
  \/ \E i \in Identifiers, e \in Endpoints : IsRateLimited(i, e)
  \/ \E i \in Identifiers, e \in Endpoints, s \in BOOLEAN : RecordAttempt(i, e, s)
  \/ \E i \in Identifiers : GetProgressiveDelay(i)
  \/ Tick

Next == RLNext

\* the rate limiter
Spec == Init /\ [][Next]_vars

SMInitAll ==
  /\ now = 0
  /\ RLIdle
  /\ SMInit
  /\ EXInit
  /\ PVIdle
  /\ URLIdle
  /\ AMInit
  /\ ENVIdle
  /\ CLInit
  /\ RWIdle
  /\ MWIdle
  /\ AUTHIdle
  /\ RPIdle

SMNext ==
  \/ \E u \in LifecycleUsers, ip \in LoginIPs, ua \in LoginUserAgents :
       nextSid <= MaxCreated /\ CreateSession(u, ip, ua)
  \/ \E sid \in SessionIds, ip \in IPs, ua \in UserAgents :
       sid <= nextSid /\ ValidateSession(sid, ip, ua)
  \/ \E sid \in SessionIds : sid <= nextSid /\ InvalidateSession(sid)
  \/ \E u \in Users : InvalidateAllUserSessions(u)
  \/ CleanupExpiredSessions
  \/ SmTick

\* the session manager: the sessions of one user through their whole life
SpecSM == SMInitAll /\ [][SMNext]_vars

CapNext ==
  \/ \E u \in Users, ip \in LoginIPs, ua \in LoginUserAgents :
       nextSid <= MaxCapCreated /\ CreateSession(u, ip, ua)
  \/ \E sid \in SessionIds : sid < nextSid /\ InvalidateSession(sid)
  \/ SmTick

\* the session manager: logins and logouts of several users
SpecCap == SMInitAll /\ [][CapNext]_vars

EXNext ==
  \/ Submit
  \/ \E run_outcome \in RunOutcomes : Execute(run_outcome)
  \/ Return
  \/ ExTick

\* the command executor
SpecEx == SMInitAll /\ [][EXNext]_vars

PVInitAll ==
  /\ now = 0
  /\ RLIdle
  /\ SMInit
  /\ EXInit
  /\ PVInit
  /\ URLIdle
  /\ AMInit
  /\ ENVIdle
  /\ CLInit
  /\ RWIdle
  /\ MWIdle
  /\ AUTHIdle
  /\ RPIdle

PVNext == ValidatePath

\* the path validator
SpecPath == PVInitAll /\ [][PVNext]_vars

URLInitAll ==
  /\ now = 0
  /\ RLIdle
  /\ SMInit
  /\ EXInit
  /\ PVIdle
  /\ URLInit
  /\ AMInit
  /\ ENVIdle
  /\ CLInit
  /\ RWIdle
  /\ MWIdle
  /\ AUTHIdle
  /\ RPIdle

URLNext ==
  \/ ValidateUrl
  \/ SanitizeRepositoryUrl
  \/ PassOn

\* the URL validator
SpecUrl == URLInitAll /\ [][URLNext]_vars

AMInitAll ==
  /\ now = 0
  /\ RLIdle
  /\ SMInit
  /\ EXInit
  /\ PVIdle
  /\ URLIdle
  /\ AMInit
  /\ ENVIdle
  /\ CLInit
  /\ RWIdle
  /\ MWIdle
  /\ AUTHIdle
  /\ RPIdle

AMNext ==
  \/ \E alert_type \in AlertTypes, ip_address \in AlertIPs :
       GenerateAlert(alert_type, ip_address)
  \/ CleanupOldData
  \/ Tick

\* the security monitor's alerts
SpecAlert == AMInitAll /\ [][AMNext]_vars

ENVInitAll ==
  /\ now = 0
  /\ RLIdle
  /\ SMInit
  /\ EXInit
  /\ PVIdle
  /\ URLIdle
  /\ AMInit
  /\ ENVInit
  /\ CLInit
  /\ RWIdle
  /\ MWIdle
  /\ AUTHIdle
  /\ RPIdle

ENVNext == SanitizeEnvironment

\* the environment of spawned processes
SpecEnv == ENVInitAll /\ [][ENVNext]_vars

CLInitAll ==
  /\ now = 0
  /\ RLIdle
  /\ SMInit
  /\ EXInit
  /\ PVIdle
  /\ URLIdle
  /\ AMInit
  /\ ENVIdle
  /\ CLInit
  /\ RWIdle
  /\ MWIdle
  /\ AUTHIdle
  /\ RPIdle

CLNext ==
  \/ \E repo_url \in RepoUrls, run_outcome \in RunOutcomes :
       GetFileLlmDocumentation(repo_url, run_outcome)
  \/ \E repo_url \in RepoUrls, run_outcome \in RunOutcomes :
       AnalyzeProjectTask(repo_url, run_outcome)
  \/ \E repo_url \in RepoUrls, run_outcome \in RunOutcomes :
       StatelessExtractDocs(repo_url, run_outcome)
  \/ ExTick

\* the handlers and the background task that clone a repository
SpecClone == CLInitAll /\ [][CLNext]_vars

RWInitAll ==
  /\ now = 0
  /\ RLIdle
  /\ SMInit
  /\ EXInit
  /\ PVIdle
  /\ URLIdle
  /\ AMInit
  /\ ENVIdle
  /\ CLInit
  /\ RWIdle
  /\ MWIdle
  /\ AUTHIdle
  /\ RPIdle

RWNext ==
  \/ \E cmd \in WindowCommands : ValidateCommand(cmd)
  \/ Tick

\* validate_command called directly, as the tests do
SpecWindow == RWInitAll /\ [][RWNext]_vars

MWInitAll ==
  /\ now = 0
  /\ RLInit
  /\ SMInit
  /\ EXInit
  /\ PVIdle
  /\ URLIdle
  /\ AMInit
  /\ ENVIdle
  /\ CLInit
  /\ RWIdle
  /\ MWIdle
  /\ AUTHIdle
  /\ RPIdle

MWNext ==
  \/ \E c \in MwClients, e \in MwEndpoints, limited_status \in LimitedStatuses :
       Dispatch(c, e, limited_status)
  \/ \E k \in MwKeys : MwIsRateLimited(k[1], k[2])
  \/ \E k \in MwKeys : MwRecordAttempt(k[1], k[2])
  \/ MwTick

\* the input validation middleware and its rate limiter
SpecMw == MWInitAll /\ [][MWNext]_vars

AUTHInitAll ==
  /\ now = 0
  /\ RLInit
  /\ SMInit
  /\ EXInit
  /\ PVIdle
  /\ URLIdle
  /\ AMInit
  /\ ENVIdle
  /\ CLInit
  /\ RWIdle
  /\ MWIdle
  /\ AUTHIdle
  /\ RPIdle

AUTHNext ==
  \/ \E r \in AuthRequests, header \in AuthHeaders : AuthBegin(r, header)
  \/ \E r \in AuthRequests, user_found \in BOOLEAN : AuthResume(r, user_found)
  \/ Tick

\* concurrent requests of one client to /auth/me
SpecAuth == AUTHInitAll /\ [][AUTHNext]_vars

RPInitAll ==
  /\ now = 0
  /\ RLIdle
  /\ SMInit
  /\ EXInit
  /\ fs_links \in Layouts
  /\ pvRequest = [base_path |-> BaseDir, relative_path |-> <<"a">>]
  /\ pvCall = NoPvCall
  /\ URLIdle
  /\ AMInit
  /\ ENVIdle
  /\ CLInit
  /\ RWIdle
  /\ MWIdle
  /\ AUTHIdle
  /\ RPIdle

RPNext ==
  \/ \E path \in AllowedDirs : AddAllowedPath(path)
  \/ \E repo_path \in RepoPaths : ResolveRepoPathSafe(repo_path)

\* repository path resolution
SpecRepoPath == RPInitAll /\ [][RPNext]_vars

\* =================================================================== claims

C2_KeyedByEndpoint ==
  rlCall.op = "is_rate_limited" /\ rlCall.limited =>
    rlCall.ownCount >= max_attempts \/ rlCall.ownBlock


\* the last SessionManager call logged an event of this type for session sid
LoggedFor(type, sid) ==
  \E i \in 1..Len(smCall.events) : smCall.events[i] = <<type, sid>>

\* this step is a call of the SessionManager operation op (every operation
\* overwrites smCall and none moves the clock)
SmStep(op) == now' = now /\ smCall'.op = op

\* C3: an IP mismatch detected by validate_session on an ACTIVE session moves
\* the session to INVALIDATED: it is no longer stored as an active session,
\* and the next validate_session call for it returns null whatever IP and
\* user agent it presents.
C3_MismatchInvalidates ==
  [][SmStep("validate_session") =>
       LET sid == smCall'.sid IN
         /\ (/\ sid \in DOMAIN sessions
             /\ sessions[sid].active
             /\ ~TimedOut(sessions[sid], now)
             /\ sessions[sid].ip # smCall'.ip)
              => ~(sid \in DOMAIN sessions' /\ sessions'[sid].active)
         /\ (\E i \in 1..Len(smCall'.events) :
               smCall'.events[i] = <<"HIJACK_ATTEMPT", sid>>) => smCall'.result = "null"]_vars

\* C4: a session id that was invalidated (timeout found by validate_session,
\* explicit invalidation, cap eviction) is never stored again, and every
\* validate_session call for it returns null.
C4_NeverHeals ==
  /\ retired \cap DOMAIN sessions = {}
  /\ \A u \in Users : retired \cap user_sessions[u] = {}
  /\ (smCall.op = "validate_session" /\ smCall.sid \in retired
        => smCall.result = "null")

C4_Witness ==
  /\ smCall.op = "validate_session"
  /\ smCall.sid \in retired
  /\ smCall.events = <<>>
  /\ smCall.ip \in LoginIPs
  /\ smCall.user_agent \in LoginUserAgents
  /\ smCall.result = "null"

\* C5: create_session for a user holding max_sessions_per_user sessions
\* removes exactly one session, one of that user's with the earliest
\* created_at, leaves the user with max_sessions_per_user sessions including
\* the new one, and leaves the sessions of other users unchanged.
C5_EvictOldest ==
  [][SmStep("create_session") =>
       LET u == sessions'[nextSid].user_id
           removed == (DOMAIN sessions) \ (DOMAIN sessions')
       IN  Cardinality(user_sessions[u]) = max_sessions_per_user =>
             /\ Cardinality(removed) = 1
             /\ removed \subseteq user_sessions[u]
             /\ \A r \in removed, o \in user_sessions[u] :
                  sessions[r].created_at <= sessions[o].created_at
             /\ Cardinality(user_sessions'[u]) = max_sessions_per_user
             /\ nextSid \in user_sessions'[u]
             /\ \A v \in Users \ {u} : user_sessions'[v] = user_sessions[v]
             /\ \A sid \in DOMAIN sessions :
                  sessions[sid].user_id # u =>
                    sid \in DOMAIN sessions' /\ sessions'[sid] = sessions[sid]]_vars

C5_Witness ==
  /\ smCall.op = "create_session"
  /\ \E i \in 1..Len(smCall.events) : smCall.events[i][1] = "INVALIDATED"
  /\ \E v \in Users : v # sessions[smCall.sid].user_id /\ user_sessions[v] # {}
  /\ \E s \in user_sessions[sessions[smCall.sid].user_id] :
       s # smCall.sid /\ sessions[s].created_at >= 1

\* C6: validate_session with an IP other than the recorded one, on a stored
\* session that has not timed out, returns null, logs a hijack attempt naming
\* the session, and leaves last_activity as it was.
C6_MismatchRejected ==
  [][SmStep("validate_session") =>
       LET sid == smCall'.sid IN
         (/\ sid \in DOMAIN sessions
          /\ ~TimedOut(sessions[sid], now)
          /\ sessions[sid].ip # smCall'.ip) =>
           /\ smCall'.result = "null"
           /\ \E i \in 1..Len(smCall'.events) :
                smCall'.events[i] = <<"HIJACK_ATTEMPT", sid>>
           /\ sid \in DOMAIN sessions'
           /\ sessions'[sid].last_activity = sessions[sid].last_activity]_vars

C6_Witness ==
  /\ smCall.op = "validate_session"
  /\ smCall.result = "null"
  /\ LoggedFor("HIJACK_ATTEMPT", smCall.sid)
  /\ smCall.sid \in DOMAIN sessions
  /\ sessions[smCall.sid].last_activity < now

\* C7: validate_session with a user agent other than the recorded one, on a
\* stored session with the recorded IP that has not timed out, returns null.
C7_AgentMismatchRejected ==
  [][SmStep("validate_session") =>
       LET sid == smCall'.sid IN
         (/\ sid \in DOMAIN sessions
          /\ ~TimedOut(sessions[sid], now)
          /\ sessions[sid].ip = smCall'.ip
          /\ sessions[sid].user_agent # smCall'.user_agent) =>
           smCall'.result = "null"]_vars

\* a command whose binary is not a key of ALLOWED_COMMANDS, or whose
\* subcommand is not a key of the binary's table
NotAllowlisted(cmd) ==
  /\ cmd # <<>>
  /\ \/ cmd[1] \notin DOMAIN ALLOWED_COMMANDS
     \/ (Len(cmd) > 1 /\ cmd[2] \notin DOMAIN ALLOWED_COMMANDS[cmd[1]])

\* C8: execute raises SecurityError, without calling subprocess.run, for
\* every command whose binary or subcommand is not in ALLOWED_COMMANDS; no
\* rejected command is spawned; and subprocess.run is called only in a call
\* in which validate_command has returned.
C8_SpawnOnlyValidated ==
  exCall.op = "execute" =>
    /\ NotAllowlisted(exCall.cmd) => exCall.result = "SecurityError" /\ ~exCall.spawned
    /\ ~exCall.validated => exCall.result = "SecurityError" /\ ~exCall.spawned
    /\ exCall.spawned => exCall.validated

\* a git push reached the subcommand check and was turned away unspawned
C8_Witness ==
  /\ exCall.op = "execute"
  /\ exCall.cmd = <<"git", "push">>
  /\ exCall.error = "Subcommand not allowed"
  /\ exCall.result = "SecurityError"
  /\ ~exCall.spawned

\* a step in which execute() runs
ExecuteStep == request # NoRequest /\ request' = NoRequest

\* C9 (as stated): a command that validate_command rejects adds nothing to
\* command_history: the history after the call is the history before it,
\* at most without entries that have left the window.
C9_RejectedAddsNothing ==
  [][ExecuteStep /\ ~exCall'.validated =>
       \E k \in 0..Len(command_history) :
         command_history' = SubSeq(command_history, k + 1, Len(command_history))]_vars

\* an argument that names a remote repository
IsRepositoryURL(arg) ==
  Contains(Chars[arg], <<":", "/", "/">>) \/ StartsWith(Chars[arg], <<"g", "i", "t", "@">>)

\* C10 (as stated): in every clone command that validate_command accepts,
\* every repository URL among the arguments, at whatever position, is one
\* that URLValidator.validate_url accepts.
C10_CloneURLsValidated ==
  (/\ exCall.op = "execute"
   /\ exCall.validated
   /\ Len(exCall.cmd) >= 2
   /\ exCall.cmd[1] = "git"
   /\ exCall.cmd[2] = "clone")
  => \A i \in 3..Len(exCall.cmd) :
       IsRepositoryURL(exCall.cmd[i]) => validate_url(Chars[exCall.cmd[i]]) = "ok"

\* C11 (as stated): a command git clone --depth 1 <URL> <dir>, as
\* execute_git_clone builds it, with an https URL ending in .git on an allowed
\* host, a timeout within MAX_TIMEOUT and the rate limit not exceeded, passes
\* validate_command.
C11_CloneShapeAccepted ==
  (/\ exCall.op = "execute"
   /\ Len(exCall.cmd) = 6
   /\ SubSeq(exCall.cmd, 1, 4) = <<"git", "clone", "--depth", "1">>
   /\ StartsWith(Chars[exCall.cmd[5]], <<"h", "t", "t", "p", "s", ":", "/", "/">>)
   /\ _validate_git_url(Chars[exCall.cmd[5]]) = "ok"
   /\ validate_url(Chars[exCall.cmd[5]]) = "ok"
   /\ ~StartsWith(Chars[exCall.cmd[6]], <<"-", "-">>)
   /\ exCall.timeout <= MAX_TIMEOUT
   /\ exCall.error # "Rate limit exceeded")
  => exCall.validated

\* C12: every path validate_path returns is the canonical base directory or
\* lies below it, and is canonical: no ancestor of it, nor the path itself,
\* is a symbolic link, and no component is empty, "." or "..". This holds for
\* every relative path and every symlink layout, whether the base is passed
\* by its canonical name or through a link.
C12_ResultWithinBase ==
  pvCall.op = "validate_path" /\ ~pvCall.raised =>
    /\ IsWithin(pvCall.path, BaseDir)
    /\ \A k \in 1..Len(pvCall.path) :
         /\ SubSeq(pvCall.path, 1, k) \notin DOMAIN fs_links
         /\ pvCall.path[k] \notin {<<>>, <<".">>, <<".", ".">>}

\* a path through a link inside the base, validated against the aliased base
C12_Witness ==
  /\ pvCall.op = "validate_path"
  /\ ~pvCall.raised
  /\ LinkPlace \in DOMAIN fs_links
  /\ pvRequest.base_path = BaseAlias
  /\ pvRequest.relative_path[1] = "l"
  /\ Len(pvCall.path) > Len(BaseDir)

\* s contains ../ or ..\
HasTraversal(s) == Contains(s, <<".", ".", "/">>) \/ Contains(s, <<".", ".", "\\">>)

\* C13: validate_path raises PathTraversalError, and returns no path, for
\* every relative path that contains ../ or ..\ literally, percent-encoded
\* once or percent-encoded twice, or that contains /etc/ or /proc/.
C13_TraversalRaises ==
  (/\ pvCall.op = "validate_path"
   /\ LET relative == pvRequest.relative_path
      IN  \/ HasTraversal(relative)
          \/ HasTraversal(unquote(relative))
          \/ HasTraversal(unquote(unquote(relative)))
          \/ Contains(relative, <<"/", "e", "t", "c", "/">>)
          \/ Contains(relative, <<"/", "p", "r", "o", "c", "/">>))
  => pvCall.raised /\ pvCall.path = <<>>

\* a traversal that only shows after two decodings was turned away
C13_Witness ==
  /\ pvCall.op = "validate_path"
  /\ ~HasTraversal(unquote(pvRequest.relative_path))
  /\ HasTraversal(unquote(unquote(pvRequest.relative_path)))
  /\ pvCall.raised
  /\ pvCall.error = "invalid characters"

C15_SymlinkByTarget ==
  (/\ pvCall.op = "validate_path"
   /\ pvRequest.relative_path = <<"l">>
   /\ LinkPlace \in DOMAIN fs_links)
  => (pvCall.raised <=>
        \/ fs_links[LinkPlace] = [absolute |-> TRUE, parts |-> OutsideDir]
        \/ fs_links[LinkPlace] = [absolute |-> FALSE, parts |-> << <<".", ".">>, <<"o">> >>])

\* a link with a relative target that climbs out of the base was turned away
C15_Witness ==
  /\ pvCall.op = "validate_path"
  /\ pvRequest.relative_path = <<"l">>
  /\ LinkPlace \in DOMAIN fs_links
  /\ fs_links[LinkPlace] = [absolute |-> FALSE, parts |-> << <<".", ".">>, <<"o">> >>]
  /\ pvCall.raised
  /\ pvCall.error = "Path traversal detected"

\* the userinfo of a URL holds credentials: a password, or a secret token in
\* the place of the user name
HasCredentials(url) ==
  \/ urlparse(url).password # <<>>
  \/ urlparse(url).username \in SecretTokens

\* C16 (as stated): validate_url raises, and never returns True, for a URL
\* whose userinfo holds credentials, be it a password or a secret token in
\* the username position.
C16_CredentialsRejected ==
  (urlCall.op = "validate_url" /\ HasCredentials(urlCall.url)) => urlCall.raised

\* C17 (as stated): sanitize_url on a URL whose userinfo holds a password does
\* not raise; it returns the URL with the password masked, and the password
\* does not occur in the result.
C17_PasswordMasked ==
  (/\ urlCall.op = "sanitize_repository_url"
   /\ urlparse(urlCall.url).password # <<>>)
  => /\ ~urlCall.raised
     /\ ~Contains(urlCall.result, urlparse(urlCall.url).password)
     /\ urlparse(urlCall.result).hostname = urlparse(urlCall.url).hostname
     /\ urlparse(urlCall.result).username = urlparse(urlCall.url).username

\* C18 (as stated): when sanitize_repository_url returns a result, the result
\* is no longer than the URL and has no password component, and
\* sanitize_repository_url applied to that result returns it unchanged.
C18_SanitizeRoundTrip ==
  urlCall.op = "sanitize_repository_url"
  => /\ ~urlCall.raised
        => /\ Len(urlCall.result) <= Len(urlCall.url)
           /\ urlparse(urlCall.result).password = <<>>
     /\ urlRequest.from_result
        => /\ ~urlCall.raised
           /\ urlCall.result = urlCall.url

\* a step in which _generate_alert ran for the pair (alert_type, ip_address)
GenerateAlertStep(alert_type, ip_address) ==
  /\ amCall'.op = "_generate_alert"
  /\ amCall'.alert_type = alert_type
  /\ amCall'.ip_address = ip_address
  /\ (amCall' # amCall \/ alerts' # alerts)

\* C19: a _generate_alert call for an (alert type, address) pair appends
\* nothing and leaves the suppression table alone while less than
\* alert_suppression_window has passed since the last alert appended for that
\* pair; otherwise, whatever alerts other pairs have had, it appends the
\* alert.
C19_CooldownPerPair ==
  [][\A alert_type \in AlertTypes, ip_address \in AlertIPs :
       GenerateAlertStep(alert_type, ip_address)
       => IF /\ emittedAt[alert_type, ip_address] >= 0
             /\ now < emittedAt[alert_type, ip_address] + alert_suppression_window
          THEN /\ alerts' = alerts
               /\ alert_suppression' = alert_suppression
               /\ ~amCall'.emitted
          ELSE /\ alerts' = Append(alerts, [alert_type |-> alert_type,
                                            ip_address |-> ip_address,
                                            timestamp |-> now])
               /\ amCall'.emitted]_vars

\* an alert was suppressed for a pair whose window was open, another pair
\* got its alert inside that window, and the first pair got a second alert
\* once the window had passed
C19_Witness ==
  /\ amCall.op = "_generate_alert"
  /\ ~amCall.emitted
  /\ \E i, j, k \in 1..Len(alerts) :
       /\ i < j /\ j < k
       /\ alerts[j].ip_address # alerts[i].ip_address
       /\ alerts[j].alert_type = alerts[i].alert_type
       /\ alerts[j].timestamp < alerts[i].timestamp + alert_suppression_window
       /\ alerts[k].ip_address = alerts[i].ip_address
       /\ alerts[k].alert_type = alerts[i].alert_type
       /\ alerts[k].timestamp >= alerts[i].timestamp + alert_suppression_window

\* C20 (as stated): when the process of an accepted command exits non-zero
\* or times out, execute returns a CompletedProcess; execute raises only
\* when validate_command raised; and an accepted call runs the process.
C20_FailureReturned ==
  exCall.op = "execute"
  => /\ (exCall.validated /\ exCall.run_outcome \in {"nonzero_exit", "TimeoutExpired"})
        => exCall.result = "CompletedProcess"
     /\ exCall.result # "CompletedProcess" => ~exCall.validated
     /\ exCall.validated => exCall.spawned

\* C21 (as stated): the environment _sanitize_environment returns for the
\* child holds only allowlisted variables and the executor's git defaults,
\* whatever the caller passed and whatever the parent process has.
C21_OnlyAllowlisted ==
  envCall.op = "_sanitize_environment"
  => DOMAIN envCall.safe_env \subseteq safe_keys \cup GitDefaults

\* C22 (as stated): whenever a handler that clones a repository has spawned
\* a git clone process, the repository URL had passed validation before.
C22_ValidatedBeforeSpawn ==
  cloneCall.spawned => cloneCall.url_validated

\* a direct validate_command call
ValidateStep == vcCall' # vcCall \/ passed' # passed \/ command_history' # command_history

\* the number of times of a history that lie in the window ending at t
InWindow(history, t) ==
  Len(SelectSeq(history, LAMBDA x : x > t - RATE_LIMIT_WINDOW /\ x <= t))

\* no window of RATE_LIMIT_WINDOW seconds holds more than RATE_LIMIT_MAX
\* commands that passed validate_command
AtMostMaxPass ==
  \A t \in 0..MaxTime : InWindow(passed, t) <= RATE_LIMIT_MAX

\* C23: at most RATE_LIMIT_MAX commands pass validate_command in any window
\* of RATE_LIMIT_WINDOW seconds; with RATE_LIMIT_MAX earlier commands in the
\* window a further (non-empty) command is rejected with the rate-limit
\* error and is not counted; and once fewer earlier commands are left in
\* the window a command that is otherwise valid is accepted again. The
\* earlier commands are those command_history holds: every command that
\* reached the rate check.
C23_SlidingWindow ==
  [][ValidateStep =>
       /\ AtMostMaxPass'
       /\ InWindow(command_history, now) >= RATE_LIMIT_MAX /\ vcCall'.cmd # <<>>
            => /\ vcCall'.error = "Rate limit exceeded"
               /\ InWindow(command_history', now) = InWindow(command_history, now)
       /\ InWindow(command_history, now) < RATE_LIMIT_MAX /\ vcCall'.cmd = <<"git", "pull">>
            => vcCall'.error = "ok"]_vars

\* the limit was reached, a command was rejected for it, and after the
\* window moved on a command passed again
C23_Witness ==
  /\ vcCall.error = "ok"
  /\ limited_at >= 0
  /\ limited_at < now
  /\ Len(passed) > RATE_LIMIT_MAX

\* this step is an is_rate_limited call (the clock stands still during it)
IsRateLimitedStep == rlCall'.op = "is_rate_limited" /\ now' = now

\* C24: an is_rate_limited call for an identifier that is not inside a block
\* period returns limited exactly when the record_attempt(success=False)
\* calls made for it in the trailing window_size seconds number
\* max_attempts or more; successful attempts and attempts older than the
\* window do not count.
C24_CountsFailuresInWindow ==
  [][IsRateLimitedStep =>
       LET identifier == rlCall'.identifier
           inBlock == identifier \in DOMAIN blocks /\ now < blocks[identifier]
       IN  ~inBlock =>
             (rlCall'.limited <=>
                WindowCount(failed[identifier], now, window_size) >= max_attempts)]_vars

\* a check outside a block that is not limited although the attempts list
\* held max_attempts failures: some of them are older than the window
C24_Witness ==
  /\ rlCall.op = "is_rate_limited"
  /\ ~rlCall.limited
  /\ rlCall.preCount >= 1
  /\ rlCall.preCount < max_attempts
  /\ rlCall.stored >= max_attempts

\* C25 (as stated): a request to an endpoint that is neither an auth endpoint
\* nor exempt from rate limiting, sent when max_attempts or more requests of
\* the same client to that endpoint were let through in the trailing
\* window_size seconds, is answered with status 429.
C25_EveryRequestCounts ==
  (/\ mwCall.op = "dispatch"
   /\ mwCall.endpoint \notin AuthEndpoints \cup unlimited_endpoints
   /\ mwCall.admitted_before >= max_attempts)
    => mwCall.status = 429

\* C26 (as stated): an is_rate_limited call made while the key's block is
\* running returns limited with a retry_after that is not less than the
\* time the block has left, and does not move blocked-until.
C26_BlockHolds ==
  (mwCall.op = "is_rate_limited" /\ mwCall.remaining > 0) =>
    /\ mwCall.limited
    /\ mwCall.retry_after * Resolution >= mwCall.remaining
    /\ ~mwCall.moved

\* C27 (as stated): the attempts dictionary holds no key with an empty list:
\* after any sequence of is_rate_limited, record_attempt and
\* get_progressive_delay calls every stored key has at least one attempt,
\* and a check for an identifier never seen before stores nothing.
C27_NoEmptyEntries ==
  \A identifier \in DOMAIN attempts : attempts[identifier] # <<>>

\* the sessions stored for a user
StoredSessions(user_id) ==
  {sid \in DOMAIN sessions : sessions[sid].user_id = user_id}

\* C28: whatever sequence of create_session, validate_session,
\* invalidate_session, invalidate_all_user_sessions and
\* cleanup_expired_sessions calls was made, no user has more than
\* max_sessions_per_user sessions stored, in user_sessions or in sessions.
C28_SessionCap ==
  \A u \in Users :
    /\ Cardinality(user_sessions[u]) <= max_sessions_per_user
    /\ Cardinality(StoredSessions(u)) <= max_sessions_per_user

\* a create_session call for a user at the cap: it evicted a session and
\* left the user at the cap again
C28_Witness ==
  /\ smCall.op = "create_session"
  /\ \E i \in 1..Len(smCall.events) : smCall.events[i][1] = "INVALIDATED"
  /\ \E u \in Users :
       /\ smCall.sid \in user_sessions[u]
       /\ Cardinality(StoredSessions(u)) = max_sessions_per_user

\* the requests whose credential check failed and that reached it in the
\* window ending at t
FailedChecks(t) ==
  {r \in AuthRequests : /\ handlers[r].status = 401
                        /\ handlers[r].reached > t - window_size
                        /\ handlers[r].reached # -1
                        /\ handlers[r].reached <= t}

C30_OnlyUnderAllowed ==
  (rpCall.op = "resolve_repo_path_safe" /\ rpCall.direct) =>
    (rpCall.raised <=> ~rpCall.allowed_before)

====
